---- MODULE Spec2Model ----
(***************************************************************************)
(* A model of the 12Bowl pick'em application: the scoring engine and the   *)
(* weekly resolver (GameLogic), the browser-side pick store (App.picks,    *)
(* makePick / savePicks), the two backend savePick handlers that write    *)
(* the Picks sheet, the season statistics and the leaderboard, the         *)
(* standings of the serverless function, result simulation and ingestion,  *)
(* and the admin data operations.                                          *)
(*                                                                         *)
(* JavaScript values are represented as follows.                           *)
(*   - an integer that may be null (a tiebreaker guess, a final score) is   *)
(*     a sequence: << >> for null, <<n>> for the number n;                  *)
(*   - a team name that may be null (a game's winner) is a string, with    *)
(*     NullTeam standing for null;                                         *)
(*   - an object used as a map (App.picks, a record's games) is a function  *)
(*     whose DOMAIN is the set of keys present;                            *)
(*   - a template-string key `${player}_week${week}` is the pair           *)
(*     <<player, week>>.                                                   *)
(***************************************************************************)
EXTENDS Integers, Sequences, FiniteSets, TLC

VARIABLES
    schedule,        \* Config.SAMPLE_GAMES: the game list of each week
    players,         \* App.players
    currentWeek,     \* App.currentWeek
    currentPlayer,   \* App.currentPlayer ("" when nobody is selected)
    games,           \* App.games / the week's game list handed to GameLogic
    picks,           \* App.picks
    tiebreakerInput, \* App.elements.tiebreakerInput.value
    localPicks,      \* localStorage['nflPicks']
    fetchedGames,    \* the games state of App.jsx, set by fetchNFLGames
    isOnlineMode,    \* App.isOnlineMode
    isLoading,       \* App.isLoading
    loads,           \* the loadGames calls that await the answer of API.getGames
    buttonsShown,    \* whether the games container shows the buttons of App.games
    gamesSource,     \* where App.games came from: "sample" or "backend"
    sent,            \* the requests the last savePicks delivered to the backend
    saveOutcome,     \* what the last savePicks returned and whether the backend saved
    notice,          \* the type of the notification shown by the last handler
    api,             \* the API client: connected flag, last error, the request in progress
    weeklyScores,    \* result of GameLogic.calculateWeeklyScores
    adminScores,     \* result of adminControls.calculateWeekScores
    weekResult,      \* result of GameLogic.determineWeeklyWinner
    seasonStats,     \* result of GameLogic.getSeasonStats
    leaderboard,     \* result of GameLogic.generateLeaderboard
    raised,          \* the exception raised by the last GameLogic call ("" for none)
    sheetRows,       \* the Picks sheet written by the upsert handler (26 columns)
    apiRows,         \* the Picks sheet written by the append handler (6 columns)
    standingsRows,   \* the Standings sheet read by getStandings
    gamesRows,       \* the Games sheet read by getGames (10 columns)
    reply,           \* the result object of the last backend savePick
    pending          \* the savePick requests in flight at the upsert handler

onlineVars == <<isOnlineMode, isLoading, loads, buttonsShown, gamesSource, sent, saveOutcome,
                notice, api>>
appVars == <<schedule, players, currentWeek, currentPlayer, games, picks, tiebreakerInput,
             localPicks, fetchedGames, onlineVars>>
scoreVars == <<weeklyScores, adminScores, weekResult, seasonStats, leaderboard, raised>>
backendVars == <<sheetRows, apiRows, standingsRows, gamesRows, reply, pending>>

vars == <<appVars, scoreVars, backendVars>>

(***************************************************************************)
(* Bounds of the model.                                                    *)
(***************************************************************************)
MaxGames == 2
MaxScore == 1

(***************************************************************************)
(* Program constants and sample data.                                      *)
(***************************************************************************)
NoTiebreakerDiff == 999

NULL == << >>
NullTeam == "null"

\* A JavaScript string that the program builds or parses is a sequence of
\* fragments (concatenation is \o); '' is the empty sequence.
EmptyText == << >>

\* The head of initializeApp's fallback player list.
FallbackPlayers == <<"Alex", "Jordan", "Casey">>

\* Config.SAMPLE_GAMES[1], teams and ids; the last one is the Monday game.
SampleGames ==
    <<[id |-> 1, awayTeam |-> "Baltimore", homeTeam |-> "Kansas City"],
      [id |-> 2, awayTeam |-> "Atlanta",   homeTeam |-> "Pittsburgh"],
      [id |-> 3, awayTeam |-> "Miami",     homeTeam |-> "Jacksonville"],
      [id |-> 4, awayTeam |-> "Green Bay", homeTeam |-> "Philadelphia"]>>
MondayGame == [id |-> 5, awayTeam |-> "NY Jets", homeTeam |-> "San Francisco"]

(***************************************************************************)
(* Helpers for JavaScript semantics.                                       *)
(***************************************************************************)
\* Truthiness of a number-or-null: null and 0 are falsy.
TruthyNum(x) == x # NULL /\ x[1] # 0

\* `x || null` for a number-or-null.
OrNull(x) == IF TruthyNum(x) THEN x ELSE NULL

Abs(n) == IF n < 0 THEN -n ELSE n

\* Array.prototype.sort with comparator (a, b) => a.k - b.k on a sequence of
\* records with an integer field k: ascending by k, stable.
RECURSIVE InsertByKey(_, _)
InsertByKey(x, s) ==
    IF s = << >> THEN <<x>>
    ELSE IF x.k - Head(s).k < 0 THEN <<x>> \o s
    ELSE <<Head(s)>> \o InsertByKey(x, Tail(s))

RECURSIVE SortByKey(_)
SortByKey(s) ==
    IF s = << >> THEN << >>
    ELSE InsertByKey(s[Len(s)], SortByKey(SubSeq(s, 1, Len(s) - 1)))

Range(s) == {s[i] : i \in 1..Len(s)}


(***************************************************************************)
(* Game records.                                                           *)
(***************************************************************************)
Game(base, completed, winner, awayScore, homeScore, isMNF) ==
    [id |-> base.id, awayTeam |-> base.awayTeam, homeTeam |-> base.homeTeam,
     completed |-> completed, awayScore |-> awayScore, homeScore |-> homeScore,
     winner |-> winner, isMNF |-> isMNF]

\* `${player}_week${week}`
PlayerKey(player, week) == <<player, week>>

\* GameData.calculateTotalPoints
CalculateTotalPoints(game) ==
    IF ~game.completed \/ game.awayScore = NULL \/ game.homeScore = NULL
    THEN NULL
    ELSE <<game.awayScore[1] + game.homeScore[1]>>

(***************************************************************************)
(* Scoring engine: GameLogic.calculatePickAccuracy and                     *)
(* GameLogic.calculateWeeklyScores.  The percentage field (a float) is     *)
(* left out of the score records.                                          *)
(***************************************************************************)
\* CountsGame without its test of game.completed.
CountsGameIgnoringCompletion(playerPicks, game) ==
    game.winner # NullTeam /\ game.id \in DOMAIN playerPicks.games

\* The condition under which calculatePickAccuracy counts a game.
CountsGame(playerPicks, game) ==
    game.completed /\ game.winner # NullTeam /\ game.id \in DOMAIN playerPicks.games

CalculatePickAccuracy(playerPicks, gs) ==
    LET counted == {i \in 1..Len(gs) : CountsGame(playerPicks, gs[i])}
        right   == {i \in counted : playerPicks.games[gs[i].id] = gs[i].winner}
    IN  [correct |-> Cardinality(right), total |-> Cardinality(counted)]

\* players = App.players.length > 0 ? App.players : Config.APP.PLAYERS
ConfigPlayers == <<"Kid1", "Kid2", "Kid3", "Kid4", "Kid5", "Kid6">>
EffectivePlayers == IF Len(players) > 0 THEN players ELSE ConfigPlayers

\* The score object built for one player (both branches of the forEach body).
PlayerScore(player, week, gs) ==
    LET playerKey == PlayerKey(player, week) IN
    IF playerKey \in DOMAIN picks
    THEN LET accuracy == CalculatePickAccuracy(picks[playerKey], gs) IN
         [player |-> player, correct |-> accuracy.correct, total |-> accuracy.total,
          tiebreaker |-> OrNull(picks[playerKey].tiebreaker), tiebreakerDiff |-> NULL]
    ELSE [player |-> player, correct |-> 0,
          total |-> Cardinality({i \in 1..Len(gs) : gs[i].completed}),
          tiebreaker |-> NULL, tiebreakerDiff |-> NULL]

\* The scores object, as the sequence of its values in insertion order.
CalculateWeeklyScores(week, gs) ==
    [i \in 1..Len(EffectivePlayers) |-> PlayerScore(EffectivePlayers[i], week, gs)]

\* adminControls.calculateWeekScores, for one player.
AdminPlayerScore(player, week, gs) ==
    LET playerKey == PlayerKey(player, week) IN
    IF playerKey \notin DOMAIN picks
    THEN [player |-> player, correct |-> 0, total |-> 0]
    ELSE LET counted == {i \in 1..Len(gs) : gs[i].completed /\ gs[i].winner # NullTeam}
             right   == {i \in counted :
                            /\ gs[i].id \in DOMAIN picks[playerKey].games
                            /\ picks[playerKey].games[gs[i].id] = gs[i].winner}
         IN  [player |-> player, correct |-> Cardinality(right),
              total |-> Cardinality(counted)]

AdminCalculateWeekScores(week, gs) ==
    IF Len(gs) = 0 THEN << >>
    ELSE [i \in 1..Len(EffectivePlayers) |-> AdminPlayerScore(EffectivePlayers[i], week, gs)]

(***************************************************************************)
(* Weekly resolver: GameLogic.determineWeeklyWinner.                       *)
(***************************************************************************)
\* games.find(g => g.isMNF): << >> when there is none.
FindMNF(gs) ==
    LET idx == {i \in 1..Len(gs) : gs[i].isMNF} IN
    IF idx = {} THEN << >>
    ELSE <<gs[CHOOSE i \in idx : \A j \in idx : i <= j]>>

\* SortByCorrect with the comparator reversed: (a, b) => a.correct - b.correct.
SortByCorrectAscending(ws) ==
    LET keyed  == [i \in 1..Len(ws) |-> [k |-> ws[i].correct, v |-> ws[i]]]
        sorted == SortByKey(keyed)
    IN  [i \in 1..Len(ws) |-> sorted[i].v]

\* players.sort((a, b) => b.correct - a.correct)
SortByCorrect(ws) ==
    LET keyed  == [i \in 1..Len(ws) |-> [k |-> 0 - ws[i].correct, v |-> ws[i]]]
        sorted == SortByKey(keyed)
    IN  [i \in 1..Len(ws) |-> sorted[i].v]

\* The tiebreakerDiff assigned to a tied player.
TiebreakerDiff(player, mnfTotal) ==
    IF TruthyNum(player.tiebreaker)
    THEN Abs(player.tiebreaker[1] - mnfTotal)
    ELSE NoTiebreakerDiff

\* winners.forEach(...) followed by winners.sort((a, b) => a.tiebreakerDiff - b.tiebreakerDiff)
SortByTiebreaker(winners, mnfTotal) ==
    LET keyed  == [i \in 1..Len(winners) |->
                     [k |-> TiebreakerDiff(winners[i], mnfTotal),
                      v |-> [winners[i] EXCEPT !.tiebreakerDiff =
                                                 <<TiebreakerDiff(winners[i], mnfTotal)>>]]]
        sorted == SortByKey(keyed)
    IN  [i \in 1..Len(winners) |-> sorted[i].v]

\* Whether determineWeeklyWinner takes the tiebreaker branch.
UsesTiebreaker(winners, mnf) ==
    /\ Len(winners) > 1
    /\ mnf # << >>
    /\ mnf[1].completed
    /\ CalculateTotalPoints(mnf[1]) # NULL

\* The returned object.  ws is Object.values(weeklyScores), non-empty.
DetermineWeeklyWinner(ws, mnf) ==
    LET ps       == SortByCorrect(ws)
        topScore == ps[1].correct
        winners  == SelectSeq(ps, LAMBDA p : p.correct = topScore)
    IN  IF UsesTiebreaker(winners, mnf)
        THEN LET mnfTotal == CalculateTotalPoints(mnf[1])
                 ranked   == SortByTiebreaker(winners, mnfTotal[1])
             IN  [winner |-> ranked[1], isTiebreaker |-> TRUE,
                  mnfTotal |-> mnfTotal, tiedPlayers |-> Len(ranked)]
        ELSE [winner |-> winners[1], isTiebreaker |-> FALSE,
              mnfTotal |-> NULL, tiedPlayers |-> Len(winners)]

\* The score objects after the call: the tied players have gained tiebreakerDiff.
ScoresAfterResolve(ws, mnf) ==
    LET topScore == SortByCorrect(ws)[1].correct
        winners  == SelectSeq(ws, LAMBDA p : p.correct = topScore)
    IN  IF UsesTiebreaker(winners, mnf)
        THEN [i \in 1..Len(ws) |->
                IF ws[i].correct = topScore
                THEN [ws[i] EXCEPT !.tiebreakerDiff =
                        <<TiebreakerDiff(ws[i], CalculateTotalPoints(mnf[1])[1])>>]
                ELSE ws[i]]
        ELSE ws

(***************************************************************************)
(* Scoring and resolution as steps of the program.                         *)
(***************************************************************************)
\* GameLogic.calculateWeeklyScores(App.currentWeek, games)
CalculateWeeklyScoresStep ==
    /\ weeklyScores' = CalculateWeeklyScores(currentWeek, games)
    /\ UNCHANGED <<appVars, adminScores, weekResult, seasonStats, leaderboard, raised,
                   backendVars>>

\* adminControls.calculateWeekScores()
AdminCalculateWeekScoresStep ==
    /\ adminScores' = <<AdminCalculateWeekScores(currentWeek, games)>>
    /\ UNCHANGED <<appVars, weeklyScores, weekResult, seasonStats, leaderboard, raised,
                   backendVars>>

\* GameLogic.determineWeeklyWinner(weeklyScores, games.find(g => g.isMNF))
DetermineWeeklyWinnerStep ==
    /\ Len(weeklyScores) > 0
    /\ weekResult' = <<DetermineWeeklyWinner(weeklyScores, FindMNF(games))>>
    /\ weeklyScores' = ScoresAfterResolve(weeklyScores, FindMNF(games))
    /\ UNCHANGED <<appVars, adminScores, seasonStats, leaderboard, raised, backendVars>>

(***************************************************************************)
(* Inputs of the scoring engine: every list of at most MaxGames games of   *)
(* the sample week, each pending or completed with any winner field, and   *)
(* every pick store of one or two players over those games.                *)
(***************************************************************************)
TeamsOf(base) == {base.awayTeam, base.homeTeam}

GameStates(i) ==
    {Game(SampleGames[i], c, w, NULL, NULL, FALSE) :
        c \in BOOLEAN, w \in {NullTeam} \cup TeamsOf(SampleGames[i])}

GameLists ==
    UNION {{s \in [1..L -> UNION {GameStates(i) : i \in 1..L}] :
               \A i \in 1..L : s[i] \in GameStates(i)} : L \in 0..MaxGames}

\* Every games map over the first MaxGames sample games.
Selections ==
    UNION {{f \in [S -> UNION {TeamsOf(SampleGames[i]) : i \in 1..MaxGames}] :
               \A g \in S : f[g] \in TeamsOf(SampleGames[g])} : S \in SUBSET (1..MaxGames)}

PickRecord(player, week, selections, tiebreaker) ==
    [player |-> player, week |-> week, games |-> selections, tiebreaker |-> tiebreaker]

\* The pick stores for week `week` in which each player of `ps` has no record or
\* a record drawn from `shapes` (pairs <<games map, tiebreaker>>).
PickStores(ps, week, shapes, mayBeAbsent) ==
    LET opts == {<<sh>> : sh \in shapes} \cup (IF mayBeAbsent THEN {<< >>} ELSE {})
    IN  {[k \in {PlayerKey(ps[i], week) : i \in {j \in 1..Len(ps) : c[j] # << >>}} |->
            LET i == CHOOSE j \in 1..Len(ps) : ps[j] = k[1]
            IN  PickRecord(ps[i], week, c[i][1][1], c[i][1][2])] :
         c \in [1..Len(ps) -> opts]}

NoPicks == [k \in {} |-> 0]

Week1Sample ==
    [i \in 1..2 |-> Game(SampleGames[i], FALSE, NullTeam, NULL, NULL, FALSE)]

Week2Sample ==
    <<Game([id |-> 6, awayTeam |-> "Buffalo", homeTeam |-> "Miami"],
           TRUE, "Buffalo", <<31>>, <<10>>, FALSE),
      Game([id |-> 9, awayTeam |-> "Cincinnati", homeTeam |-> "Washington"],
           FALSE, NullTeam, NULL, NULL, TRUE)>>

\* GameData.getSampleGames: Config.SAMPLE_GAMES[week] || []
GetSampleGames(week) ==
    IF week \in DOMAIN schedule THEN schedule[week] ELSE << >>

\* The sample data shipped in Config, two games per week.
SampleSchedule == <<Week1Sample, Week2Sample>>


\* The API object before any request: _isConnected false, _lastError null,
\* no request in progress.
ApiIdle ==
    [isConnected |-> FALSE, lastError |-> EmptyText, retryCount |-> 0, attempts |-> 0,
     phase |-> "idle", thrown |-> EmptyText]

\* The application offline, the sample games displayed, nothing saved yet.
InitConnection ==
    /\ api = ApiIdle
    /\ isOnlineMode = FALSE
    /\ isLoading = FALSE
    /\ loads = {}
    /\ buttonsShown = TRUE
    /\ gamesSource = "sample"
    /\ sent = << >>
    /\ saveOutcome = << >>
    /\ notice = ""

\* The part of the state a specification does not exercise.
InitApp ==
    /\ InitConnection
    /\ schedule = SampleSchedule
    /\ currentWeek = 1
    /\ currentPlayer = ""
    /\ tiebreakerInput = EmptyText
    /\ localPicks = NoPicks
    /\ fetchedGames = << >>

InitScores ==
    /\ weeklyScores = << >>
    /\ adminScores = << >>
    /\ weekResult = << >>
    /\ seasonStats = << >>
    /\ leaderboard = << >>
    /\ raised = ""

InitBackend ==
    /\ sheetRows = << >>
    /\ apiRows = << >>
    /\ standingsRows = << >>
    /\ gamesRows = << >>
    /\ reply = << >>
    /\ pending = << >>

InitCommon == InitApp /\ InitScores /\ InitBackend

InitScore ==
    /\ InitCommon
    /\ players \in {SubSeq(FallbackPlayers, 1, n) : n \in 1..2}
    /\ games \in GameLists
    /\ picks \in PickStores(players, 1, Selections \X {NULL}, TRUE)

NextScore == CalculateWeeklyScoresStep \/ AdminCalculateWeekScoresStep

SpecScore == InitScore /\ [][NextScore]_vars

(***************************************************************************)
(* Inputs of the weekly resolver: MaxGames completed games won by the home *)
(* team, followed or not by the Monday game in any state of completion and *)
(* with any scores up to MaxScore; two or three players, each with a       *)
(* record that picks the home team in the first k games and the away team  *)
(* in the others, and with any tiebreaker guess of Guesses.                *)
(***************************************************************************)
ScoreVals == {NULL} \cup {<<n>> : n \in 0..MaxScore}

Guesses == {NULL} \cup {<<n>> : n \in {0, 1, 2 * MaxScore + 1}}

\* The winner field as result ingestion sets it (simulateGameResults).
WinnerByScore(base, completed, awayScore, homeScore) ==
    IF completed /\ awayScore # NULL /\ homeScore # NULL
    THEN (IF awayScore[1] > homeScore[1] THEN base.awayTeam ELSE base.homeTeam)
    ELSE NullTeam

RegularGames ==
    [i \in 1..MaxGames |->
        Game(SampleGames[i], TRUE, SampleGames[i].homeTeam, NULL, NULL, FALSE)]

MondayStates ==
    {Game(MondayGame, c, WinnerByScore(MondayGame, c, a, h), a, h, TRUE) :
        c \in BOOLEAN, a \in ScoreVals, h \in ScoreVals}

FirstKHome(k) ==
    [g \in 1..MaxGames |->
        IF g <= k THEN SampleGames[g].homeTeam ELSE SampleGames[g].awayTeam]

InitResolve ==
    /\ InitCommon
    /\ players \in {SubSeq(FallbackPlayers, 1, n) : n \in 2..3}
    /\ games \in {RegularGames} \cup {Append(RegularGames, m) : m \in MondayStates}
    /\ picks \in PickStores(players, 1, {FirstKHome(k) : k \in 0..MaxGames} \X Guesses, FALSE)

NextResolve == CalculateWeeklyScoresStep \/ DetermineWeeklyWinnerStep

SpecResolve == InitResolve /\ [][NextResolve]_vars

(***************************************************************************)
(* Properties of the scoring engine (checked under SpecScore).             *)
(***************************************************************************)
Scored == weeklyScores # << >>

CompletedGames == {i \in 1..Len(games) : games[i].completed}

\* The player's selection for the game at position i equals the game's winner.
PickedWinner(player, i) ==
    /\ PlayerKey(player, currentWeek) \in DOMAIN picks
    /\ games[i].id \in DOMAIN picks[PlayerKey(player, currentWeek)].games
    /\ picks[PlayerKey(player, currentWeek)].games[games[i].id] = games[i].winner

\* C1: when every completed game has its winner, every player's weekly score
\* has total equal to the number of completed games and correct equal to the
\* number of completed games whose selection equals the winner; a completed
\* game without a selection still counts in total.
C1_TotalCountsEveryCompletedGame ==
    (Scored /\ \A i \in CompletedGames : games[i].winner # NullTeam) =>
        \A s \in 1..Len(weeklyScores) :
            /\ weeklyScores[s].total = Cardinality(CompletedGames)
            /\ weeklyScores[s].correct =
                   Cardinality({i \in CompletedGames : PickedWinner(weeklyScores[s].player, i)})

\* The game list without its pending games.
CompletedOnly == SelectSeq(games, LAMBDA g : g.completed)

\* C2: a game that is not completed contributes to no count, whatever was
\* selected for it (the scores are those of the list without its pending games),
\* and every weekly score satisfies 0 <= correct <= total <= completed games.
C2_PendingGamesNeverCount ==
    Scored =>
        /\ weeklyScores = CalculateWeeklyScores(currentWeek, CompletedOnly)
        /\ \A s \in 1..Len(weeklyScores) :
              /\ 0 <= weeklyScores[s].correct
              /\ weeklyScores[s].correct <= weeklyScores[s].total
              /\ weeklyScores[s].total <= Cardinality(CompletedGames)

\* A scored week in which a player picked the recorded winner of a pending game
\* and also a completed game.
C2_Witness ==
    /\ Scored
    /\ \E s \in 1..Len(weeklyScores) :
          /\ \E i \in 1..Len(games) :
                ~games[i].completed /\ PickedWinner(weeklyScores[s].player, i)
          /\ weeklyScores[s].total >= 1
          /\ weeklyScores[s].total < Len(games)

(***************************************************************************)
(* Properties of the weekly resolver (checked under SpecResolve).          *)
(***************************************************************************)
Resolved == Scored /\ weekResult # << >>

TopCorrect ==
    CHOOSE m \in {weeklyScores[s].correct : s \in 1..Len(weeklyScores)} :
        \A s \in 1..Len(weeklyScores) : weeklyScores[s].correct <= m

\* The players tied on the maximum correct count.
TiedPlayers ==
    {weeklyScores[s].player : s \in {t \in 1..Len(weeklyScores) :
                                         weeklyScores[t].correct = TopCorrect}}

\* The winners the result names.
ReturnedWinners == {weekResult[1].winner.player}

\* The guess a player submitted: the tiebreaker stored in the pick record.
GuessOf(player) == picks[PlayerKey(player, currentWeek)].tiebreaker

\* The tiebreaker game is there, completed, with both scores known.
TiebreakerKnown ==
    /\ FindMNF(games) # << >>
    /\ FindMNF(games)[1].completed
    /\ FindMNF(games)[1].awayScore # NULL
    /\ FindMNF(games)[1].homeScore # NULL

Target == FindMNF(games)[1].awayScore[1] + FindMNF(games)[1].homeScore[1]

Distance(player) == Abs(GuessOf(player)[1] - Target)

\* C3: the winner returned holds the maximum correct count; a player who
\* alone holds it is the result, and the tiebreaker is reported as not used.
C3_WinnerHoldsMaximum ==
    Resolved =>
        /\ weekResult[1].winner.correct = TopCorrect
        /\ ReturnedWinners \subseteq TiedPlayers
        /\ Cardinality(TiedPlayers) = 1 =>
              /\ ReturnedWinners = TiedPlayers
              /\ ~weekResult[1].isTiebreaker

\* Three players, the last of them alone on the maximum, the tiebreaker game known.
C3_Witness ==
    /\ Resolved
    /\ Len(weeklyScores) = 3
    /\ TiedPlayers = {players[3]}
    /\ TiebreakerKnown
    /\ weekResult[1].winner.player = players[3]

\* C4: with several players tied on the maximum, the tiebreaker game known, and
\* two or more tied players at the same minimal distance from the target, all of
\* those players are returned as co-winners.
C4_ExactTiePersists ==
    (Resolved /\ Cardinality(TiedPlayers) > 1 /\ TiebreakerKnown
        /\ \A p \in TiedPlayers : GuessOf(p) # NULL) =>
        LET closest == {p \in TiedPlayers :
                           \A q \in TiedPlayers : Distance(p) <= Distance(q)}
        IN  Cardinality(closest) > 1 => closest \subseteq ReturnedWinners

\* C5: with several players tied on the maximum and the tiebreaker game known, a
\* tied player whose guess is strictly closer to awayScore + homeScore than every
\* other tied player's guess is the only winner, by tiebreaker, with that target.
C5_StrictlyCloserWins ==
    (Resolved /\ Cardinality(TiedPlayers) > 1 /\ TiebreakerKnown
        /\ \A p \in TiedPlayers : GuessOf(p) # NULL) =>
        \A p \in TiedPlayers :
            (\A q \in TiedPlayers \ {p} : Distance(p) < Distance(q)) =>
                /\ ReturnedWinners = {p}
                /\ weekResult[1].isTiebreaker
                /\ weekResult[1].mnfTotal = <<Target>>

\* C6: with the tiebreaker game known, a tied player without a guess never wins
\* over a tied player who submitted a numeric guess, whatever the guess.
C6_MissingGuessNeverWins ==
    (Resolved /\ TiebreakerKnown
        /\ \E p \in TiedPlayers : GuessOf(p) # NULL) =>
        \A w \in ReturnedWinners : GuessOf(w) # NULL

\* C7: with several players tied on the maximum and the tiebreaker game absent,
\* not completed or without known scores, all tied players are returned as
\* co-winners and the tiebreaker is reported as not used.
C7_DeferredTieReturnsAll ==
    (Resolved /\ Cardinality(TiedPlayers) > 1 /\ ~TiebreakerKnown) =>
        /\ ReturnedWinners = TiedPlayers
        /\ ~weekResult[1].isTiebreaker

(***************************************************************************)
(* Text and numbers: parseInt and number-to-string conversion.             *)
(***************************************************************************)
Digits == <<"0", "1", "2", "3", "4", "5", "6", "7", "8", "9">>

IsDigit(c) == \E i \in 1..Len(Digits) : Digits[i] = c

DigitValue(c) == (CHOOSE i \in 1..Len(Digits) : Digits[i] = c) - 1

\* The longest prefix of s made of digits.
RECURSIVE LeadingDigits(_)
LeadingDigits(s) ==
    IF s = << >> \/ ~IsDigit(Head(s)) THEN << >>
    ELSE <<Head(s)>> \o LeadingDigits(Tail(s))

RECURSIVE DigitsValue(_)
DigitsValue(s) ==
    IF s = << >> THEN 0
    ELSE 10 * DigitsValue(SubSeq(s, 1, Len(s) - 1)) + DigitValue(s[Len(s)])

\* parseInt(text): an optional sign and the leading digits; NaN is << >>.
ParseInt(text) ==
    LET negative == text # << >> /\ Head(text) = "-"
        ds       == LeadingDigits(IF negative THEN Tail(text) ELSE text)
    IN  IF ds = << >> THEN NULL
        ELSE <<(IF negative THEN 0 - DigitsValue(ds) ELSE DigitsValue(ds))>>

\* String(n) / n.toString() / `${n}` for a natural number n.
RECURSIVE NumToText(_)
NumToText(n) ==
    IF n < 10 THEN <<Digits[n + 1]>>
    ELSE NumToText(n \div 10) \o <<Digits[(n % 10) + 1]>>

(***************************************************************************)
(* The browser application in offline mode (App.isOnlineMode = false):     *)
(* handlePlayerChange, the tiebreaker field, savePicks, makePick and       *)
(* changeWeek.  Games come from Config.SAMPLE_GAMES, of which the model    *)
(* keeps two games per week.                                               *)
(***************************************************************************)
MaxWeek == 2

\* What the user may type into the tiebreaker field.
TypedTexts == {<<"4", "5">>}

NoSelections == [g \in {} |-> ""]

\* The value loadPlayerPicks puts into the tiebreaker field.
LoadedTiebreakerText(player, week) ==
    LET playerKey == PlayerKey(player, week) IN
    IF playerKey \in DOMAIN picks /\ TruthyNum(picks[playerKey].tiebreaker)
    THEN NumToText(picks[playerKey].tiebreaker[1])
    ELSE EmptyText

\* savePicks: if (App.picks[playerKey] && tiebreakerValue)
\*                App.picks[playerKey].tiebreaker = parseInt(tiebreakerValue)
StoreTiebreaker(ps, playerKey, tiebreakerValue) ==
    IF playerKey \in DOMAIN ps /\ tiebreakerValue # EmptyText
    THEN [ps EXCEPT ![playerKey].tiebreaker = ParseInt(tiebreakerValue)]
    ELSE ps

\* SetSelection that discards the selections already in the map.
ReplaceSelections(selections, gameId, team) == [g \in {gameId} |-> team]

\* games[gameId] = team
SetSelection(selections, gameId, team) ==
    [g \in DOMAIN selections \cup {gameId} |->
        IF g = gameId THEN team ELSE selections[g]]

\* makePick up to its call of savePicks: the record is created if needed and
\* the selection is stored in it.
RecordPick(ps, player, week, gameId, team) ==
    LET playerKey == PlayerKey(player, week)
        record    == IF playerKey \in DOMAIN ps THEN ps[playerKey]
                     ELSE PickRecord(player, week, NoSelections, NULL)
    IN  [k \in DOMAIN ps \cup {playerKey} |->
            IF k = playerKey
            THEN [record EXCEPT !.games = SetSelection(record.games, gameId, team)]
            ELSE ps[k]]

HandlePlayerChange(newPlayer) ==
    /\ newPlayer # currentPlayer
    /\ currentPlayer' = newPlayer
    /\ tiebreakerInput' = IF newPlayer # ""
                          THEN LoadedTiebreakerText(newPlayer, currentWeek)
                          ELSE tiebreakerInput
    /\ buttonsShown' = IF newPlayer # "" /\ Len(games) > 0 THEN TRUE ELSE buttonsShown
    /\ UNCHANGED <<isOnlineMode, isLoading, loads, gamesSource, sent, saveOutcome, notice, api,
                   schedule, fetchedGames, players, currentWeek, games, picks, localPicks,
                   scoreVars, backendVars>>

\* The user edits the tiebreaker field.
TypeTiebreaker(text) ==
    /\ text # tiebreakerInput
    /\ tiebreakerInput' = text
    /\ UNCHANGED <<onlineVars, schedule, fetchedGames, players, currentWeek, currentPlayer, games, picks, localPicks,
                   scoreVars, backendVars>>

\* savePicks, as run by the tiebreaker field's timer, the auto-save interval,
\* the save button and Ctrl+S.
SavePicks ==
    /\ currentPlayer # ""
    /\ picks' = StoreTiebreaker(picks, PlayerKey(currentPlayer, currentWeek), tiebreakerInput)
    /\ localPicks' = picks'
    /\ UNCHANGED <<onlineVars, schedule, fetchedGames, players, currentWeek, currentPlayer, games, tiebreakerInput,
                   scoreVars, backendVars>>

MakePick(gameId, team) ==
    /\ currentPlayer # ""
    /\ ~\E i \in 1..Len(games) : games[i].id = gameId /\ games[i].completed
    /\ picks' = StoreTiebreaker(
                    RecordPick(picks, currentPlayer, currentWeek, gameId, team),
                    PlayerKey(currentPlayer, currentWeek), tiebreakerInput)
    /\ localPicks' = picks'
    /\ UNCHANGED <<onlineVars, schedule, fetchedGames, players, currentWeek, currentPlayer, games, tiebreakerInput,
                   scoreVars, backendVars>>

ChangeWeek(week) ==
    /\ currentWeek' = week
    /\ games' = GetSampleGames(week)
    /\ tiebreakerInput' = IF currentPlayer # ""
                          THEN LoadedTiebreakerText(currentPlayer, week)
                          ELSE tiebreakerInput
    /\ UNCHANGED <<onlineVars, schedule, fetchedGames, players, currentPlayer, picks, localPicks, scoreVars, backendVars>>

\* A click on one of the team buttons of a displayed game.
ClickTeam == \E i \in 1..Len(games) : \E team \in TeamsOf(games[i]) : MakePick(games[i].id, team)

InitAppSpec ==
    /\ InitCommon
    /\ players = SubSeq(FallbackPlayers, 1, 2)
    /\ games = GetSampleGames(1)
    /\ picks = NoPicks

NextApp ==
    \/ \E p \in {""} \cup Range(players) : HandlePlayerChange(p)
    \/ \E text \in {EmptyText} \cup TypedTexts : TypeTiebreaker(text)
    \/ SavePicks
    \/ ClickTeam
    \/ \E week \in 1..MaxWeek : ChangeWeek(week)

SpecApp == InitAppSpec /\ [][NextApp]_vars

(***************************************************************************)
(* Frame of makePick (checked under SpecApp).                              *)
(***************************************************************************)
CurrentKey == PlayerKey(currentPlayer, currentWeek)

\* The selections of the current record before the step.
StoredSelections ==
    IF CurrentKey \in DOMAIN picks THEN picks[CurrentKey].games ELSE NoSelections

\* The step stores team for gameId, keeps every other selection of the current
\* record and keeps every other record.
MergesSelection(gameId, team) ==
    /\ DOMAIN picks' = DOMAIN picks \cup {CurrentKey}
    /\ DOMAIN picks'[CurrentKey].games = DOMAIN StoredSelections \cup {gameId}
    /\ picks'[CurrentKey].games[gameId] = team
    /\ \A g \in DOMAIN StoredSelections \ {gameId} :
          picks'[CurrentKey].games[g] = StoredSelections[g]
    /\ \A k \in DOMAIN picks \ {CurrentKey} : picks'[k] = picks[k]

\* The step keeps the tiebreaker stored in the current record.
KeepsTiebreaker ==
    CurrentKey \in DOMAIN picks =>
        picks'[CurrentKey].tiebreaker = picks[CurrentKey].tiebreaker

\* The step keeps the stored tiebreaker when the tiebreaker field is empty, and
\* otherwise stores the number the field shows.
TiebreakerFollowsField ==
    IF tiebreakerInput = EmptyText
    THEN /\ KeepsTiebreaker
         /\ CurrentKey \notin DOMAIN picks => picks'[CurrentKey].tiebreaker = NULL
    ELSE /\ picks'[CurrentKey].tiebreaker # NULL
         /\ NumToText(picks'[CurrentKey].tiebreaker[1]) = tiebreakerInput

\* C8, as stated: makePick for game g sets only the selection of g; the other
\* selections of the record, the record's stored tiebreaker and every other
\* record are unchanged.
C8_MakePickKeepsTiebreaker ==
    [][\A i \in 1..Len(games) : \A team \in TeamsOf(games[i]) :
          MakePick(games[i].id, team) =>
              MergesSelection(games[i].id, team) /\ KeepsTiebreaker]_vars

\* C8, amended: makePick for game g sets the selection of g and keeps the other
\* selections of the record and every other record; the record's stored
\* tiebreaker is unchanged when the tiebreaker field is empty and is otherwise
\* set to the number in the field.
C8_MakePickMergesSelection ==
    [][\A i \in 1..Len(games) : \A team \in TeamsOf(games[i]) :
          MakePick(games[i].id, team) =>
              MergesSelection(games[i].id, team) /\ TiebreakerFollowsField]_vars

\* The current record holds two selections and a tiebreaker, next to a record of
\* the same player for another week and a record of another player.
C8_Witness ==
    /\ CurrentKey \in DOMAIN picks
    /\ Cardinality(DOMAIN picks[CurrentKey].games) = 2
    /\ picks[CurrentKey].tiebreaker # NULL
    /\ \E k \in DOMAIN picks : k[1] = currentPlayer /\ k[2] # currentWeek
    /\ \E k \in DOMAIN picks : k[1] # currentPlayer
    /\ localPicks = picks

(***************************************************************************)
(* The upsert backend: savePick on a Picks sheet of 26 columns, one row    *)
(* per player and week.  sheetRows[i] is row i of the sheet; a cell is a   *)
(* text, '' when empty.  The timestamp cell holds the token Timestamp.     *)
(* One request is served at a time.                                        *)
(***************************************************************************)
SheetWidth == 26
GameColumnCount == 20
TiebreakerColumn == 24
TimestampColumn == 25

Timestamp == <<"timestamp">>

\* The header row written by the recovery path.
SheetHeader ==
    [j \in 1..SheetWidth |->
        IF j = 1 THEN <<"PlayerWeek">>
        ELSE IF j = 2 THEN <<"Player">>
        ELSE IF j <= 2 + GameColumnCount THEN <<"Game">> \o NumToText(j - 2)
        ELSE IF j = 23 THEN <<"Reserved1">>
        ELSE IF j = 24 THEN <<"Reserved2">>
        ELSE IF j = 25 THEN <<"Tiebreaker">>
        ELSE <<"LastUpdated">>]

\* `${player}_Week${week}`
PlayerWeekKey(player, week) == <<player, "_Week">> \o NumToText(week)

\* A row as values.get returns it: without its trailing empty cells.
RECURSIVE TrimRow(_)
TrimRow(row) ==
    IF row = << >> \/ row[Len(row)] # EmptyText THEN row
    ELSE TrimRow(SubSeq(row, 1, Len(row) - 1))

\* while (rowData.length < 26) rowData.push('')
PadRow(row) ==
    [j \in 1..(IF Len(row) < SheetWidth THEN SheetWidth ELSE Len(row)) |->
        IF j <= Len(row) THEN row[j] ELSE EmptyText]

\* rowData[index] = value, index counted from 0; an index outside the array
\* below leaves the cells as they are, one above extends the array.
SetCell(row, index, value) ==
    IF index < 0 THEN row
    ELSE [j \in 1..(IF index + 1 > Len(row) THEN index + 1 ELSE Len(row)) |->
             IF j = index + 1 THEN value
             ELSE IF j <= Len(row) THEN row[j] ELSE EmptyText]

\* A required-fields check that looks at teamPick only.
MissingTeamPick(data) == data.teamPick = ""

\* !player || !week || !gameId || !teamPick
MissingRequired(data) ==
    data.player = "" \/ data.week = 0 \/ data.gameId = EmptyText \/ data.teamPick = ""

\* for (let i = 1; i < rows.length; i++) if (rows[i][0] === playerWeekKey):
\* the number of the first sheet row after row 1 whose first cell is the key, 0
\* when there is none.  (Trimming trailing empty cells, as values.get does,
\* leaves a non-empty first cell in place.)
FindRow(sheet, key) ==
    LET hits == {i \in 2..Len(sheet) : sheet[i][1] = key} IN
    IF hits = {} THEN 0 ELSE CHOOSE i \in hits : \A j \in hits : i <= j

\* const gameColumn = 2 + parseInt(gameId) - 1; << >> when parseInt gives NaN.
GameColumn(gameId) ==
    IF ParseInt(gameId) = NULL THEN NULL ELSE <<2 + ParseInt(gameId)[1] - 1>>

TiebreakerText(tiebreaker) ==
    IF TruthyNum(tiebreaker) THEN NumToText(tiebreaker[1]) ELSE EmptyText

\* The row written by the update branch.
UpdatedRow(existingRow, data) ==
    LET padded     == PadRow(existingRow)
        gameColumn == GameColumn(data.gameId)
        withPick   == IF gameColumn # NULL /\ gameColumn[1] < SheetWidth
                      THEN SetCell(padded, gameColumn[1], <<data.teamPick>>)
                      ELSE padded
        withGuess  == IF TruthyNum(data.tiebreaker)
                      THEN SetCell(withPick, TiebreakerColumn, TiebreakerText(data.tiebreaker))
                      ELSE withPick
    IN  SetCell(withGuess, TimestampColumn, Timestamp)

\* The row written by the create branch.
CreatedRow(data) ==
    LET start      == <<PlayerWeekKey(data.player, data.week), <<data.player>>>>
                          \o [j \in 1..GameColumnCount |-> EmptyText]
        gameColumn == GameColumn(data.gameId)
        withPick   == IF gameColumn # NULL /\ gameColumn[1] < 2 + GameColumnCount
                      THEN SetCell(start, gameColumn[1], <<data.teamPick>>)
                      ELSE start
    IN  withPick \o <<EmptyText, EmptyText, TiebreakerText(data.tiebreaker), Timestamp>>

\* The sheet after a savePick whose storage calls succeed.
SheetAfterSave(sheet, data) ==
    LET idx == FindRow(sheet, PlayerWeekKey(data.player, data.week)) IN
    IF idx # 0
    THEN [sheet EXCEPT ![idx] = UpdatedRow(TrimRow(sheet[idx]), data)]
    ELSE Append(sheet, CreatedRow(data))

SaveMethod(sheet, data) ==
    IF FindRow(sheet, PlayerWeekKey(data.player, data.week)) # 0
    THEN "updated" ELSE "created"

\* The sheet after the recovery path has written the header to A1:Z1.
SheetWithHeader(sheet) ==
    IF sheet = << >> THEN <<SheetHeader>> ELSE [sheet EXCEPT ![1] = SheetHeader]

Result(success, method) == <<[success |-> success, method |-> method]>>

\* savePick, every storage call succeeding.
SheetSavePick(data) ==
    /\ IF MissingRequired(data)
       THEN /\ sheetRows' = sheetRows
            /\ reply' = Result(FALSE, "missing")
       ELSE /\ sheetRows' = SheetAfterSave(sheetRows, data)
            /\ reply' = Result(TRUE, SaveMethod(sheetRows, data))
    /\ UNCHANGED <<appVars, scoreVars, standingsRows, gamesRows, apiRows, pending>>

\* savePick when a storage call of the first attempt throws: the header is
\* written and the retried call goes through.
SheetSavePickRecovered(data) ==
    /\ ~MissingRequired(data)
    /\ sheetRows' = SheetAfterSave(SheetWithHeader(sheetRows), data)
    /\ reply' = Result(TRUE, SaveMethod(SheetWithHeader(sheetRows), data))
    /\ UNCHANGED <<appVars, scoreVars, standingsRows, gamesRows, apiRows, pending>>

\* savePick when a storage call throws and the header write throws as well.
SheetSavePickFailed ==
    /\ reply' = Result(FALSE, "error")
    /\ UNCHANGED <<appVars, scoreVars, standingsRows, gamesRows, sheetRows, apiRows, pending>>

\* The requests sent to a backend: a pick of either team of a week-1 sample
\* game, with or without a tiebreaker, and requests without teamPick.
PickRequest(player, week, gameId, teamPick, tiebreaker) ==
    [player |-> player, week |-> week, gameId |-> gameId, teamPick |-> teamPick,
     tiebreaker |-> tiebreaker]

Requests ==
    {PickRequest(p, 1, NumToText(Week1Sample[i].id), t, tb) :
        p \in Range(SubSeq(FallbackPlayers, 1, 2)),
        i \in 1..Len(Week1Sample),
        t \in {Week1Sample[1].awayTeam, Week1Sample[1].homeTeam,
               Week1Sample[2].awayTeam, Week1Sample[2].homeTeam, ""},
        tb \in {NULL, <<45>>}}

\* Requests whose teamPick, when given, is a team of the game.
SheetRequests ==
    {d \in Requests :
        d.teamPick = "" \/ \E i \in 1..Len(Week1Sample) :
            d.gameId = NumToText(Week1Sample[i].id) /\ d.teamPick \in TeamsOf(Week1Sample[i])}

\* The application idle while a backend is exercised.
InitIdleApp ==
    /\ InitApp
    /\ InitScores
    /\ players = SubSeq(FallbackPlayers, 1, 2)
    /\ games = GetSampleGames(1)
    /\ picks = NoPicks

\* The Picks sheet starts empty or with its header row.
InitSheet ==
    /\ InitIdleApp
    /\ sheetRows \in {<< >>, <<SheetHeader>>}
    /\ apiRows = << >>
    /\ standingsRows = << >>
    /\ gamesRows = << >>
    /\ reply = << >>
    /\ pending = << >>

NextSheet ==
    \/ \E d \in SheetRequests : SheetSavePick(d)
    \/ \E d \in SheetRequests : SheetSavePickRecovered(d)
    \/ SheetSavePickFailed

SpecSheet == InitSheet /\ [][NextSheet]_vars

(***************************************************************************)
(* Frame of the upsert (checked under SpecSheet).                          *)
(***************************************************************************)
\* The rows of the sheet whose first cell is the key of the request.
RowsOf(sheet, data) ==
    {i \in 1..Len(sheet) : sheet[i][1] = PlayerWeekKey(data.player, data.week)}

\* The cell (index from 1) of the game the request names.
GameCell(data) == 2 + ParseInt(data.gameId)[1]

GameCells == 3..(2 + GameColumnCount)

\* A savePick call for data that reports success.
SuccessfulSave(data) ==
    /\ SheetSavePick(data) \/ SheetSavePickRecovered(data)
    /\ reply'[1].success

\* C9: savePick applied to an existing (player, week) row changes the selection
\* of the given game only: the row then holds teamPick for that game, every
\* other game's selection in the row is unchanged, and no other row of the
\* sheet is modified or added.
C9_UpsertChangesOneSelection ==
    [][\A d \in SheetRequests :
          (SuccessfulSave(d) /\ RowsOf(sheetRows, d) # {}) =>
              /\ Len(sheetRows') = Len(sheetRows)
              /\ \A i \in RowsOf(sheetRows, d) :
                    /\ sheetRows'[i][GameCell(d)] = <<d.teamPick>>
                    /\ \A c \in GameCells \ {GameCell(d)} :
                          sheetRows'[i][c] = sheetRows[i][c]
              /\ \A i \in (1..Len(sheetRows)) \ RowsOf(sheetRows, d) :
                    sheetRows'[i] = sheetRows[i]]_vars

(***************************************************************************)
(* The append backend: savePick on a Picks sheet of 6 columns (Player,     *)
(* Week, GameID, Pick, Tiebreaker, Timestamp), one row per saved pick.     *)
(***************************************************************************)
MaxRows == 3

ApiHeader == <<<<"Player">>, <<"Week">>, <<"GameID">>, <<"Pick">>, <<"Tiebreaker">>,
               <<"Timestamp">>>>

\* requiredFields.filter(field => !data[field]).length > 0
ApiMissingFields(data) ==
    data.player = "" \/ data.week = 0 \/ data.gameId = EmptyText \/ data.teamPick = ""

\* The row of values appended for a request.
ApiRow(data) ==
    <<<<data.player>>, NumToText(data.week), data.gameId, <<data.teamPick>>,
      TiebreakerText(data.tiebreaker), Timestamp>>

\* ensureSheetStructure: the header is written when A1:F1 holds no values.
EnsureSheetStructure(rows) == IF rows = << >> THEN <<ApiHeader>> ELSE rows

\* savePick, every storage call succeeding.
ApiSavePick(data) ==
    /\ Len(apiRows) < MaxRows
    /\ IF ApiMissingFields(data)
       THEN /\ apiRows' = apiRows
            /\ reply' = Result(FALSE, "missing")
       ELSE /\ apiRows' = Append(EnsureSheetStructure(apiRows), ApiRow(data))
            /\ reply' = Result(TRUE, "appended")
    /\ UNCHANGED <<appVars, scoreVars, standingsRows, gamesRows, sheetRows, pending>>

\* savePick when ensureSheetStructure throws: the handler continues anyway.
ApiSavePickUnchecked(data) ==
    /\ Len(apiRows) < MaxRows
    /\ ~ApiMissingFields(data)
    /\ apiRows' = Append(apiRows, ApiRow(data))
    /\ reply' = Result(TRUE, "appended")
    /\ UNCHANGED <<appVars, scoreVars, standingsRows, gamesRows, sheetRows, pending>>

\* savePick when the append throws.
ApiSavePickFailed ==
    /\ reply' = Result(FALSE, "error")
    /\ UNCHANGED <<appVars, scoreVars, standingsRows, gamesRows, sheetRows, apiRows, pending>>

InitApi ==
    /\ InitIdleApp
    /\ sheetRows = << >>
    /\ apiRows \in {<< >>, <<ApiHeader>>}
    /\ standingsRows = << >>
    /\ gamesRows = << >>
    /\ reply = << >>
    /\ pending = << >>

NextApi ==
    \/ \E d \in SheetRequests : ApiSavePick(d)
    \/ \E d \in SheetRequests : ApiSavePickUnchecked(d)
    \/ ApiSavePickFailed

SpecApi == InitApi /\ [][NextApi]_vars

(***************************************************************************)
(* Uniqueness in the Picks store (checked under SpecApi).                  *)
(***************************************************************************)
\* The rows of the append backend's sheet that hold a pick.
PickRows == {i \in 1..Len(apiRows) : apiRows[i] # ApiHeader}

\* C10: after any sequence of savePick operations the store holds at most one
\* selection per player, week and game: no two rows hold a pick for the same
\* (player, week, gameId).
C10_OneSelectionPerGame ==
    \A i \in PickRows : \A j \in PickRows :
        (/\ apiRows[i][1] = apiRows[j][1]
         /\ apiRows[i][2] = apiRows[j][2]
         /\ apiRows[i][3] = apiRows[j][3]) => i = j

(***************************************************************************)
(* The upsert backend serving two requests at once.  Each invocation of    *)
(* savePick first reads the sheet (values.get) and builds its row from     *)
(* what it read, then writes that row (values.update or values.append);    *)
(* the other invocation may run between the two.  Storage calls succeed.   *)
(***************************************************************************)
InFlight(data) == [data |-> data, phase |-> "received", idx |-> 0, rowData |-> << >>]

ValidRequests == {d \in SheetRequests : ~MissingRequired(d)}

\* Two requests for the same player and week and for different games.
SiblingRequests ==
    {<<InFlight(p[1]), InFlight(p[2])>> :
        p \in {q \in ValidRequests \X ValidRequests :
                  /\ q[1].player = q[2].player
                  /\ q[1].week = q[2].week
                  /\ q[1].gameId # q[2].gameId}}

\* values.get, the lookup of the row and the construction of rowData.
ReadSheet(r) ==
    /\ pending[r].phase = "received"
    /\ LET data == pending[r].data
           idx  == FindRow(sheetRows, PlayerWeekKey(data.player, data.week))
       IN  pending' = [pending EXCEPT
                          ![r].phase = "read",
                          ![r].idx = idx,
                          ![r].rowData = IF idx # 0
                                         THEN UpdatedRow(TrimRow(sheetRows[idx]), data)
                                         ELSE CreatedRow(data)]
    /\ UNCHANGED <<appVars, scoreVars, standingsRows, gamesRows, sheetRows, apiRows, reply>>

\* values.update of the row found, or values.append of the new row.
WriteSheet(r) ==
    /\ pending[r].phase = "read"
    /\ sheetRows' = IF pending[r].idx # 0
                    THEN [sheetRows EXCEPT ![pending[r].idx] = pending[r].rowData]
                    ELSE Append(sheetRows, pending[r].rowData)
    /\ reply' = Result(TRUE, IF pending[r].idx # 0 THEN "updated" ELSE "created")
    /\ pending' = [pending EXCEPT ![r].phase = "done"]
    /\ UNCHANGED <<appVars, scoreVars, standingsRows, gamesRows, apiRows>>

\* The sheet has its header and at most one row, written by an earlier save.
InitConcurrent ==
    /\ InitIdleApp
    /\ sheetRows \in {<<SheetHeader>>}
                       \cup {<<SheetHeader, CreatedRow(d)>> : d \in ValidRequests}
    /\ apiRows = << >>
    /\ standingsRows = << >>
    /\ gamesRows = << >>
    /\ reply = << >>
    /\ pending \in SiblingRequests

NextConcurrent ==
    \/ \E r \in 1..Len(pending) : ReadSheet(r)
    \/ \E r \in 1..Len(pending) : WriteSheet(r)

SpecConcurrent == InitConcurrent /\ [][NextConcurrent]_vars

(***************************************************************************)
(* Concurrent saves (checked under SpecConcurrent).                        *)
(***************************************************************************)
AllDone == \A r \in 1..Len(pending) : pending[r].phase = "done"

\* C11: once two concurrent savePick requests for the same player and week and
\* for different games have both completed, the sheet holds a single row for
\* that player and week, and the row holds both selections.
C11_ConcurrentSavesKeepBoth ==
    (pending # << >> /\ AllDone) =>
        /\ Cardinality(RowsOf(sheetRows, pending[1].data)) = 1
        /\ \A i \in RowsOf(sheetRows, pending[1].data) :
              \A r \in 1..Len(pending) :
                  sheetRows[i][GameCell(pending[r].data)] = <<pending[r].data.teamPick>>

(***************************************************************************)
(* Season statistics: GameLogic.getSeasonStats.  A stats object is the     *)
(* sequence of its values in insertion order (the order of the players).   *)
(* averageAccuracy, a float, is kept as the fraction num / den.            *)
(***************************************************************************)
\* The correct count that worstWeek starts from.
WorstWeekStart == 999

\* The entry created for a player before the weeks are visited.
NewStat(player) ==
    [player |-> player, totalCorrect |-> 0, totalPossible |-> 0, weeklyWins |-> 0,
     bestWeek |-> [week |-> 0, correct |-> 0, total |-> 0],
     worstWeek |-> [week |-> 0, correct |-> WorstWeekStart, total |-> 0],
     averageAccuracy |-> [num |-> 0, den |-> 1]]

\* AddWeek with the totals overwritten instead of accumulated.
AddWeekOverwriting(stat, week, playerScore, weekWinner) ==
    IF playerScore.total > 0
    THEN [stat EXCEPT !.totalCorrect = playerScore.correct,
                      !.totalPossible = playerScore.total]
    ELSE stat

\* The body of the inner players.forEach, for one player and one week.
AddWeek(stat, week, playerScore, weekWinner) ==
    IF playerScore.total > 0
    THEN [stat EXCEPT
            !.totalCorrect = @ + playerScore.correct,
            !.totalPossible = @ + playerScore.total,
            !.weeklyWins = IF weekWinner.winner.player = stat.player THEN @ + 1 ELSE @,
            !.bestWeek = IF playerScore.correct > @.correct
                         THEN [week |-> week, correct |-> playerScore.correct,
                               total |-> playerScore.total]
                         ELSE @,
            !.worstWeek = IF playerScore.correct < @.correct
                          THEN [week |-> week, correct |-> playerScore.correct,
                                total |-> playerScore.total]
                          ELSE @]
    ELSE stat

\* One iteration of the loop over the weeks.
StatsAfterWeek(stats, week) ==
    LET gs == GetSampleGames(week) IN
    IF {i \in 1..Len(gs) : gs[i].completed} = {}
    THEN stats
    ELSE LET ws         == CalculateWeeklyScores(week, gs)
             weekWinner == DetermineWeeklyWinner(ws, FindMNF(gs))
         IN  [i \in 1..Len(stats) |-> AddWeek(stats[i], week, ws[i], weekWinner)]

\* for (let week = 1; week <= App.currentWeek; week++)
RECURSIVE StatsUpTo(_)
StatsUpTo(week) ==
    IF week = 0
    THEN [i \in 1..Len(EffectivePlayers) |-> NewStat(EffectivePlayers[i])]
    ELSE StatsAfterWeek(StatsUpTo(week - 1), week)

\* stat.totalPossible > 0 ? (stat.totalCorrect / stat.totalPossible) * 100 : 0
AverageAccuracy(stat) ==
    IF stat.totalPossible > 0
    THEN [num |-> stat.totalCorrect * 100, den |-> stat.totalPossible]
    ELSE [num |-> 0, den |-> 1]

GetSeasonStats ==
    LET stats == StatsUpTo(currentWeek)
    IN  [i \in 1..Len(stats) |->
            [stats[i] EXCEPT !.averageAccuracy = AverageAccuracy(stats[i])]]

\* GameLogic.getSeasonStats()
GetSeasonStatsStep ==
    /\ seasonStats' = GetSeasonStats
    /\ UNCHANGED <<appVars, weeklyScores, adminScores, weekResult, leaderboard, raised,
                   backendVars>>

(***************************************************************************)
(* Inputs of the season statistics: a schedule of MaxWeek weeks, each of a *)
(* regular game and a Monday game, in one of three states of completion;   *)
(* two players, each with no record for a week or one of two records.      *)
(***************************************************************************)
SeasonPlayers == <<"Alex", "Jordan">>

RegularOf(week) ==
    [id |-> 2 * week - 1, awayTeam |-> SampleGames[1].awayTeam,
     homeTeam |-> SampleGames[1].homeTeam]

MondayOf(week) ==
    [id |-> 2 * week, awayTeam |-> MondayGame.awayTeam, homeTeam |-> MondayGame.homeTeam]

WeekShapes(week) ==
    {<<Game(RegularOf(week), FALSE, NullTeam, NULL, NULL, FALSE),
       Game(MondayOf(week), FALSE, NullTeam, NULL, NULL, TRUE)>>,
     <<Game(RegularOf(week), TRUE, RegularOf(week).homeTeam, <<0>>, <<MaxScore>>, FALSE),
       Game(MondayOf(week), FALSE, NullTeam, NULL, NULL, TRUE)>>,
     <<Game(RegularOf(week), TRUE, RegularOf(week).awayTeam, <<MaxScore>>, <<0>>, FALSE),
       Game(MondayOf(week), TRUE, MondayOf(week).homeTeam, <<0>>, <<MaxScore>>, TRUE)>>}

Schedules ==
    {s \in [1..MaxWeek -> UNION {WeekShapes(w) : w \in 1..MaxWeek}] :
        \A w \in 1..MaxWeek : s[w] \in WeekShapes(w)}

\* The records a player may hold for a week: both home teams with a guess of
\* 1, or the Monday game's away team alone and no guess.
WeekRecords(week) ==
    <<[games |-> [g \in {RegularOf(week).id, MondayOf(week).id} |->
                    IF g = RegularOf(week).id THEN RegularOf(week).homeTeam
                                              ELSE MondayOf(week).homeTeam],
       tiebreaker |-> <<1>>],
      [games |-> [g \in {MondayOf(week).id} |-> MondayOf(week).awayTeam],
       tiebreaker |-> NULL]>>

SeasonKeys ==
    {<<SeasonPlayers[p], w>> : p \in 1..Len(SeasonPlayers), w \in 1..MaxWeek}

SeasonPickStores ==
    {[k \in {x \in SeasonKeys : c[x] # 0} |->
        PickRecord(k[1], k[2], WeekRecords(k[2])[c[k]].games,
                   WeekRecords(k[2])[c[k]].tiebreaker)] :
     c \in [SeasonKeys -> 0..2]}

InitSeason ==
    /\ schedule \in Schedules
    /\ players = SeasonPlayers
    /\ currentWeek \in 1..MaxWeek
    /\ currentPlayer = ""
    /\ games = schedule[currentWeek]
    /\ picks \in SeasonPickStores
    /\ tiebreakerInput = EmptyText
    /\ localPicks = NoPicks
    /\ fetchedGames = << >>
    /\ InitConnection
    /\ InitScores
    /\ InitBackend

(***************************************************************************)
(* Leaderboard: GameLogic.generateLeaderboard.                             *)
(***************************************************************************)
\* CompareRank without its secondary key.
CompareByWinsOnly(a, b) == b.weeklyWins - a.weeklyWins

\* The comparator of players.sort; only its sign matters.  The difference
\* of the two accuracies has the sign of the cross product of the fractions.
CompareRank(a, b) ==
    IF b.weeklyWins # a.weeklyWins
    THEN b.weeklyWins - a.weeklyWins
    ELSE b.averageAccuracy.num * a.averageAccuracy.den
            - a.averageAccuracy.num * b.averageAccuracy.den

\* Array.prototype.sort with that comparator: stable.
RECURSIVE InsertByRank(_, _)
InsertByRank(x, s) ==
    IF s = << >> THEN <<x>>
    ELSE IF CompareRank(x, Head(s)) < 0 THEN <<x>> \o s
    ELSE <<Head(s)>> \o InsertByRank(x, Tail(s))

RECURSIVE SortByRank(_)
SortByRank(s) ==
    IF s = << >> THEN << >>
    ELSE InsertByRank(s[Len(s)], SortByRank(SubSeq(s, 1, Len(s) - 1)))

\* ({ rank: index + 1, ...player, isLeader: index === 0 })
GenerateLeaderboard ==
    LET sorted == SortByRank(GetSeasonStats)
    IN  [i \in 1..Len(sorted) |-> [rank |-> i, stat |-> sorted[i], isLeader |-> i = 1]]

\* GameLogic.generateLeaderboard()
GenerateLeaderboardStep ==
    /\ leaderboard' = GenerateLeaderboard
    /\ UNCHANGED <<appVars, weeklyScores, adminScores, weekResult, seasonStats, raised,
                   backendVars>>

NextSeason == GetSeasonStatsStep \/ GenerateLeaderboardStep

SpecSeason == InitSeason /\ [][NextSeason]_vars

(***************************************************************************)
(* Season totals (checked under SpecSeason).                               *)
(***************************************************************************)
\* The weekly score of the i-th player for a week, as the scoring engine
\* computes it.
WeeklyScoreOf(i, week) == CalculateWeeklyScores(week, GetSampleGames(week))[i]

RECURSIVE SumOfWeeklyTotals(_, _)
SumOfWeeklyTotals(i, week) ==
    IF week = 0 THEN 0
    ELSE SumOfWeeklyTotals(i, week - 1) + WeeklyScoreOf(i, week).total

RECURSIVE SumOfWeeklyCorrect(_, _)
SumOfWeeklyCorrect(i, week) ==
    IF week = 0 THEN 0
    ELSE SumOfWeeklyCorrect(i, week - 1) + WeeklyScoreOf(i, week).correct

\* C12: after the weeks up to the current one have been aggregated, a
\* player's season total of graded games is the sum of the player's weekly
\* totals and the cumulative correct count is the sum of the weekly correct
\* counts.
C12_SeasonTotalsAreSums ==
    seasonStats # << >> =>
        \A i \in 1..Len(seasonStats) :
            /\ seasonStats[i].totalPossible = SumOfWeeklyTotals(i, currentWeek)
            /\ seasonStats[i].totalCorrect = SumOfWeeklyCorrect(i, currentWeek)

\* The statistics of a player who scored in two weeks with different totals.
C12_Witness ==
    /\ seasonStats # << >>
    /\ \E i \in 1..Len(seasonStats) : \E w1, w2 \in 1..currentWeek :
          /\ w1 < w2
          /\ WeeklyScoreOf(i, w1).correct > 0
          /\ WeeklyScoreOf(i, w2).correct > 0
          /\ WeeklyScoreOf(i, w1).total < WeeklyScoreOf(i, w2).total
          /\ seasonStats[i].totalPossible
                = WeeklyScoreOf(i, w1).total + WeeklyScoreOf(i, w2).total

(***************************************************************************)
(* Standings: getStandings of the serverless function.  The Standings      *)
(* sheet is filled in by hand (README); values.get returns each cell as a  *)
(* text and leaves out the trailing empty cells of a row.  A number is     *)
(* kept as a record: NaN, Infinity, or a finite value in thousandths.      *)
(***************************************************************************)
MaxTally == 2

StandingsHeader == <<<<"Player">>, <<"Wins">>, <<"Total_Games">>>>

\* row[index] for a zero-based index; undefined is the empty text, which is
\* falsy and parses to NaN like undefined does.
Cell(row, index) == IF index + 1 <= Len(row) THEN row[index + 1] ELSE EmptyText

\* parseInt(cell) || 0
ParseIntOrZero(cell) == IF TruthyNum(ParseInt(cell)) THEN ParseInt(cell)[1] ELSE 0

\* (a / b).toFixed(3) for a and b results of parseInt, rounding half up.
QuotientToFixed(a, b) ==
    IF a = NULL \/ b = NULL \/ (a[1] = 0 /\ b[1] = 0) THEN [kind |-> "NaN"]
    ELSE IF b[1] = 0 THEN [kind |-> "Infinity"]
    ELSE [kind |-> "number",
          thousandths |-> (2000 * a[1] + b[1]) \div (2 * b[1])]

\* row[2] ? (parseInt(row[1]) / parseInt(row[2])).toFixed(3) : '0.000'
Percentage(row) ==
    IF Cell(row, 2) # EmptyText
    THEN QuotientToFixed(ParseInt(Cell(row, 1)), ParseInt(Cell(row, 2)))
    ELSE [kind |-> "number", thousandths |-> 0]

\* The object built by the map callback for one row.
Standing(row) ==
    [player |-> Cell(row, 0),
     wins |-> ParseIntOrZero(Cell(row, 1)),
     totalGames |-> ParseIntOrZero(Cell(row, 2)),
     percentage |-> Percentage(row)]

\* rows.slice(1).map(...).sort((a, b) => b.wins - a.wins)
Standings(rows) ==
    LET body   == IF rows = << >> THEN << >> ELSE Tail(rows)
        keyed  == [i \in 1..Len(body) |->
                     [k |-> 0 - Standing(body[i]).wins, v |-> Standing(body[i])]]
        sorted == SortByKey(keyed)
    IN  [i \in 1..Len(body) |-> sorted[i].v]

\* getStandings(sheets, sheetId, data)
GetStandings ==
    /\ reply' = <<[standings |-> Standings(standingsRows), success |-> TRUE]>>
    /\ UNCHANGED <<appVars, scoreVars, sheetRows, apiRows, standingsRows, gamesRows, pending>>

\* A hand-written cell: empty, or a number up to MaxTally.
TallyCells == {EmptyText} \cup {NumToText(n) : n \in 0..MaxTally}

StandingsSheets ==
    {<< >>, <<StandingsHeader>>} \cup
    {<<StandingsHeader, TrimRow(<<<<"Kid1">>, w1, t1>>), TrimRow(<<<<"Kid2">>, w2, t2>>)>> :
        w1 \in TallyCells, t1 \in TallyCells, w2 \in TallyCells, t2 \in TallyCells}

InitStandings ==
    /\ InitIdleApp
    /\ sheetRows = << >>
    /\ apiRows = << >>
    /\ standingsRows \in StandingsSheets
    /\ gamesRows = << >>
    /\ reply = << >>
    /\ pending = << >>

NextStandings == GetStandings

SpecStandings == InitStandings /\ [][NextStandings]_vars

(***************************************************************************)
(* Win percentage (checked under SpecStandings).                           *)
(***************************************************************************)
\* C13: the win percentage reported for a player is a defined number: wins
\* divided by totalGames when totalGames > 0, and zero when totalGames is 0.
C13_PercentageIsDefined ==
    reply # << >> =>
        \A i \in 1..Len(reply[1].standings) :
            LET s == reply[1].standings[i] IN
            /\ s.percentage.kind = "number"
            /\ (s.totalGames = 0 => s.percentage.thousandths = 0)
            /\ (s.totalGames > 0 =>
                  s.percentage.thousandths
                     = (2000 * s.wins + s.totalGames) \div (2 * s.totalGames))

(***************************************************************************)
(* Weekly wins (checked under SpecSeason).                                 *)
(***************************************************************************)
\* A completed week: one with at least one completed game.
CompletedWeek(week) ==
    \E i \in 1..Len(GetSampleGames(week)) : GetSampleGames(week)[i].completed

\* The winner that weekly resolution returns for a week.
ResolvedWinner(week) ==
    DetermineWeeklyWinner(CalculateWeeklyScores(week, GetSampleGames(week)),
                          FindMNF(GetSampleGames(week))).winner.player

WeeksWon(player) ==
    {week \in 1..currentWeek : CompletedWeek(week) /\ ResolvedWinner(week) = player}

\* C14: after season aggregation a player's weeklyWins is the number of
\* completed weeks whose winner, as weekly resolution returns it, is that
\* player.
C14_WeeklyWinsCountWeeksWon ==
    seasonStats # << >> =>
        \A i \in 1..Len(seasonStats) :
            seasonStats[i].weeklyWins = Cardinality(WeeksWon(seasonStats[i].player))

(***************************************************************************)
(* Leaderboard order (checked under SpecSeason).                           *)
(***************************************************************************)
\* a is more accurate than b: the fractions compared by cross product.
MoreAccurate(a, b) ==
    a.averageAccuracy.num * b.averageAccuracy.den
        > b.averageAccuracy.num * a.averageAccuracy.den

RanksAbove(a, b) ==
    \/ a.weeklyWins > b.weeklyWins
    \/ a.weeklyWins = b.weeklyWins /\ MoreAccurate(a, b)

EqualOnBothKeys(a, b) == ~RanksAbove(a, b) /\ ~RanksAbove(b, a)

\* The position of a player in the statistics generateLeaderboard sorts.
InsertionIndex(player) ==
    CHOOSE i \in 1..Len(EffectivePlayers) : EffectivePlayers[i] = player

\* C15: the leaderboard holds every player's statistics once, by weeklyWins
\* descending and then by accuracy descending; players equal on both keys
\* keep their insertion order; the ranks are 1..n and only the first entry is
\* marked leader.
C15_LeaderboardOrder ==
    leaderboard # << >> =>
        /\ Len(leaderboard) = Len(EffectivePlayers)
        /\ {leaderboard[i].stat : i \in 1..Len(leaderboard)} = Range(GetSeasonStats)
        /\ \A i, j \in 1..Len(leaderboard) :
              i < j =>
                 /\ ~RanksAbove(leaderboard[j].stat, leaderboard[i].stat)
                 /\ EqualOnBothKeys(leaderboard[i].stat, leaderboard[j].stat) =>
                       InsertionIndex(leaderboard[i].stat.player)
                          < InsertionIndex(leaderboard[j].stat.player)
        /\ \A i \in 1..Len(leaderboard) :
              /\ leaderboard[i].rank = i
              /\ leaderboard[i].isLeader <=> (i = 1)

\* A leaderboard on which the second player of the list leads the first with
\* the same weeklyWins, by accuracy alone.
C15_Witness ==
    /\ Len(leaderboard) = 2
    /\ leaderboard[1].stat.player = SeasonPlayers[2]
    /\ leaderboard[1].stat.weeklyWins = leaderboard[2].stat.weeklyWins
    /\ leaderboard[1].stat.weeklyWins > 0

(***************************************************************************)
(* makePick as an entry point.  It is a global function (window.makePick)  *)
(* and stores the team it is given; GameLogic.validatePick is never called *)
(* and Validation.isValidTeamName tests the length of the name only.       *)
(***************************************************************************)
\* The team names of the displayed week.
DisplayedTeams == UNION {TeamsOf(games[i]) : i \in 1..Len(games)}

\* makePick(gameId, team) for a displayed game and any of those names.
MakePickCall ==
    \E i \in 1..Len(games) : \E team \in DisplayedTeams : MakePick(games[i].id, team)

NextPick ==
    \/ \E p \in {""} \cup Range(players) : HandlePlayerChange(p)
    \/ MakePickCall

SpecPick == InitAppSpec /\ [][NextPick]_vars

(***************************************************************************)
(* Stored selections (checked under SpecPick).                             *)
(***************************************************************************)
\* C16: every selection stored for a game is the away team or the home team
\* of that game.
C16_SelectionIsTeamOfGame ==
    \A key \in DOMAIN picks : \A gameId \in DOMAIN picks[key].games :
        \A i \in 1..Len(GetSampleGames(key[2])) :
            GetSampleGames(key[2])[i].id = gameId =>
                picks[key].games[gameId] \in TeamsOf(GetSampleGames(key[2])[i])

(***************************************************************************)
(* Game results: GameData.simulateGameResults as run by                    *)
(* Admin.simulateWeekResults, and fetchNFLGames of App.jsx, which formats  *)
(* the events of the scoreboard service.  The random scores of the         *)
(* simulation are 7 + n for n up to MaxScore; the scores of an event are   *)
(* texts.  The events of one response have the same kick-off time, so the  *)
(* sort by date keeps their order.                                         *)
(***************************************************************************)
SimulatedScores == {7 + n : n \in 0..MaxScore}

\* The callback of games.map, with the two random scores given.
SimulateGame(game, awayScore, homeScore) ==
    IF game.completed THEN game
    ELSE [game EXCEPT !.completed = TRUE,
                      !.awayScore = <<awayScore>>,
                      !.homeScore = <<homeScore>>,
                      !.winner = IF awayScore > homeScore THEN game.awayTeam
                                                          ELSE game.homeTeam]

\* GameData.simulateGameResults(games); draws[i] is the pair of random scores
\* of the i-th game.
SimulateGameResults(gs, draws) ==
    [i \in 1..Len(gs) |-> SimulateGame(gs[i], draws[i][1], draws[i][2])]

\* Admin.simulateWeekResults(week), for a week that has sample games.
SimulateWeekResults(week) ==
    /\ week \in DOMAIN schedule
    /\ \E draws \in [1..Len(GetSampleGames(week)) -> SimulatedScores \X SimulatedScores] :
          games' = IF week = currentWeek
                   THEN SimulateGameResults(GetSampleGames(week), draws)
                   ELSE games
    /\ UNCHANGED <<onlineVars, schedule, fetchedGames, players, currentWeek, currentPlayer, picks,
                   tiebreakerInput, localPicks, scoreVars, backendVars>>

\* One event of the scoreboard response.
Event(id, completed, awayScore, homeScore) ==
    [id |-> id, away |-> "BAL", home |-> "KC", completed |-> completed,
     awayScore |-> awayScore, homeScore |-> homeScore]

\* The winner fetchNFLGames gives an event; NaN compares false.
FetchedWinner(event) ==
    LET homeScore == ParseInt(event.homeScore)
        awayScore == ParseInt(event.awayScore)
    IN  IF ~event.completed \/ homeScore = NULL \/ awayScore = NULL THEN NullTeam
        ELSE IF homeScore[1] > awayScore[1] THEN event.home
        ELSE IF awayScore[1] > homeScore[1] THEN event.away
        ELSE NullTeam

\* The game object built from an event.
FormatGame(event) ==
    [id |-> event.id, away |-> event.away, home |-> event.home,
     completed |-> event.completed, winner |-> FetchedWinner(event),
     homeScore |-> event.homeScore, awayScore |-> event.awayScore]

\* fetchNFLGames(week) with a successful response.
FetchNFLGames(events) ==
    /\ fetchedGames' = [i \in 1..Len(events) |-> FormatGame(events[i])]
    /\ UNCHANGED <<onlineVars, schedule, players, currentWeek, currentPlayer, games, picks,
                   tiebreakerInput, localPicks, scoreVars, backendVars>>

ScoreTexts == {NumToText(n) : n \in 0..MaxScore}

Events(id) ==
    {Event(id, c, a, h) : c \in BOOLEAN, a \in ScoreTexts, h \in ScoreTexts}

Responses == {<<e>> : e \in Events(1)} \cup (Events(1) \X Events(2))

NextResults ==
    \/ \E week \in 1..MaxWeek : ChangeWeek(week)
    \/ \E week \in 1..MaxWeek : SimulateWeekResults(week)
    \/ \E events \in Responses : FetchNFLGames(events)

SpecResults == InitAppSpec /\ [][NextResults]_vars

(***************************************************************************)
(* Winner and completion (checked under SpecResults).                      *)
(***************************************************************************)
\* The winner field is set exactly when the game is completed, and then names
\* the team with the higher score.
WinnerWellFormed(completed, winner, awayTeam, homeTeam, awayScore, homeScore) ==
    /\ (winner # NullTeam) <=> completed
    /\ winner # NullTeam =>
          /\ awayScore # NULL /\ homeScore # NULL
          /\ \/ winner = awayTeam /\ awayScore[1] > homeScore[1]
             \/ winner = homeTeam /\ homeScore[1] > awayScore[1]

\* C17: in every game that simulation or result ingestion has produced, the
\* winner is non-null exactly when the game is completed, and a non-null
\* winner is the team of the game with the higher score.
C17_WinnerIffCompleted ==
    /\ \A i \in 1..Len(games) :
          WinnerWellFormed(games[i].completed, games[i].winner, games[i].awayTeam,
                           games[i].homeTeam, games[i].awayScore, games[i].homeScore)
    /\ \A i \in 1..Len(fetchedGames) :
          WinnerWellFormed(fetchedGames[i].completed, fetchedGames[i].winner,
                           fetchedGames[i].away, fetchedGames[i].home,
                           ParseInt(fetchedGames[i].awayScore),
                           ParseInt(fetchedGames[i].homeScore))

(***************************************************************************)
(* Data management: adminControls.importData and adminControls.resetSeason *)
(* (offline mode).  A field that the imported object lacks is << >>, 0     *)
(* or "".                                                                  *)
(***************************************************************************)
\* loadPlayerPicks applied to a given pick store.
TiebreakerTextIn(ps, player, week) ==
    LET playerKey == PlayerKey(player, week) IN
    IF playerKey \in DOMAIN ps /\ TruthyNum(ps[playerKey].tiebreaker)
    THEN NumToText(ps[playerKey].tiebreaker[1])
    ELSE EmptyText

\* adminControls.importData(jsonData), the JSON being well formed.
ImportData(data) ==
    /\ picks' = IF data.picks # << >> THEN data.picks[1] ELSE picks
    /\ currentWeek' = IF data.currentWeek # 0 THEN data.currentWeek ELSE currentWeek
    /\ currentPlayer' = IF data.currentPlayer # "" THEN data.currentPlayer
                                                   ELSE currentPlayer
    /\ localPicks' = picks'
    /\ games' = GetSampleGames(currentWeek')
    /\ tiebreakerInput' = IF currentPlayer' # ""
                          THEN TiebreakerTextIn(picks', currentPlayer', currentWeek')
                          ELSE tiebreakerInput
    /\ UNCHANGED <<onlineVars, schedule, fetchedGames, players, scoreVars, backendVars>>

\* adminControls.resetSeason(), confirmed: localStorage is cleared and the
\* page reloads into its initial state.
ResetSeason ==
    /\ localPicks' = NoPicks
    /\ picks' = NoPicks
    /\ currentWeek' = 1
    /\ currentPlayer' = ""
    /\ games' = GetSampleGames(1)
    /\ tiebreakerInput' = EmptyText
    /\ UNCHANGED <<onlineVars, schedule, fetchedGames, players, scoreVars, backendVars>>

\* The objects imported: with or without picks (an empty store, or one that
\* holds a single record of the second player), with or without a week.
ImportedPicks ==
    {<< >>, <<NoPicks>>,
     <<[k \in {PlayerKey(FallbackPlayers[2], 1)} |->
          PickRecord(FallbackPlayers[2], 1,
                     [g \in {Week1Sample[2].id} |-> Week1Sample[2].homeTeam], NULL)]>>}

ImportedData ==
    {[picks |-> p, currentWeek |-> w, currentPlayer |-> ""] :
        p \in ImportedPicks, w \in {0, MaxWeek}}

NextData ==
    \/ \E p \in {""} \cup Range(players) : HandlePlayerChange(p)
    \/ ClickTeam
    \/ \E data \in ImportedData : ImportData(data)
    \/ ResetSeason

SpecData == InitAppSpec /\ [][NextData]_vars

(***************************************************************************)
(* Persistence of selections (checked under SpecData).                     *)
(***************************************************************************)
\* Every selection held before the step is still held after it.
SelectionsKept ==
    \A key \in DOMAIN picks : \A gameId \in DOMAIN picks[key].games :
        key \in DOMAIN picks' /\ gameId \in DOMAIN picks'[key].games

\* C18: a record that holds a selection for a game still exists and still
\* holds a selection for that game after every step other than a reset of the
\* season.
C18_SelectionsPersist == [][ResetSeason \/ SelectionsKept]_vars

(***************************************************************************)
(* Scoring and resolution called on any input.  A call that dereferences   *)
(* undefined raises a TypeError and returns nothing.                       *)
(***************************************************************************)
\* calculatePickAccuracy reads playerPicks.games[game.id] for a completed
\* game that has a winner; without a games map that read raises.
AccuracyRaises(playerPicks, gs) ==
    /\ "games" \notin DOMAIN playerPicks
    /\ \E i \in 1..Len(gs) : gs[i].completed /\ gs[i].winner # NullTeam

\* GameLogic.calculateWeeklyScores(App.currentWeek, games)
CalculateWeeklyScoresCall ==
    /\ IF \E i \in 1..Len(EffectivePlayers) :
             /\ PlayerKey(EffectivePlayers[i], currentWeek) \in DOMAIN picks
             /\ AccuracyRaises(picks[PlayerKey(EffectivePlayers[i], currentWeek)], games)
       THEN /\ raised' = "TypeError"
            /\ UNCHANGED weeklyScores
       ELSE /\ raised' = ""
            /\ weeklyScores' = CalculateWeeklyScores(currentWeek, games)
    /\ UNCHANGED <<appVars, adminScores, weekResult, seasonStats, leaderboard, backendVars>>

\* GameLogic.determineWeeklyWinner(weeklyScores, games.find(g => g.isMNF));
\* players[0].correct raises when there are no scores.
DetermineWeeklyWinnerCall ==
    /\ IF Len(weeklyScores) = 0
       THEN /\ raised' = "TypeError"
            /\ UNCHANGED <<weeklyScores, weekResult>>
       ELSE /\ raised' = ""
            /\ weekResult' = <<DetermineWeeklyWinner(weeklyScores, FindMNF(games))>>
            /\ weeklyScores' = ScoresAfterResolve(weeklyScores, FindMNF(games))
    /\ UNCHANGED <<appVars, adminScores, seasonStats, leaderboard, backendVars>>

\* The records a player may hold: one without a games map, one with an empty
\* map, one that picks the home team of the first game, one that picks a team
\* that does not play in it, and one that picks in a game that does not exist;
\* with a guess of 1 or without a guess.
UnknownTeam == "Dallas"

UnknownGame == 99

AnyRecords(player) ==
    {[player |-> player, week |-> 1, tiebreaker |-> tb] : tb \in {NULL, <<1>>}} \cup
    {PickRecord(player, 1, sel, tb) :
        sel \in {NoSelections,
                 [g \in {SampleGames[1].id} |-> SampleGames[1].homeTeam],
                 [g \in {SampleGames[1].id} |-> UnknownTeam],
                 [g \in {UnknownGame} |-> UnknownTeam]},
        tb \in {NULL, <<1>>}}

AnyPickStores(ps) ==
    {[k \in {PlayerKey(ps[i], 1) : i \in {j \in 1..Len(ps) : c[j] # << >>}} |->
        c[CHOOSE j \in 1..Len(ps) : ps[j] = k[1]][1]] :
     c \in [1..Len(ps) -> {<< >>} \cup
                          {<<r>> : r \in UNION {AnyRecords(ps[i]) : i \in 1..Len(ps)}}]}

InitTotal ==
    /\ InitCommon
    /\ players = SubSeq(FallbackPlayers, 1, 2)
    /\ games \in GameLists
    /\ picks \in {s \in AnyPickStores(players) : \A k \in DOMAIN s : s[k].player = k[1]}

NextTotal == CalculateWeeklyScoresCall \/ DetermineWeeklyWinnerCall

SpecTotal == InitTotal /\ [][NextTotal]_vars

(***************************************************************************)
(* Totality of the core (checked under SpecTotal).                         *)
(***************************************************************************)
\* C19: scoring and weekly resolution never raise an exception.
C19_CoreNeverRaises == raised = ""

(***************************************************************************)
(* Purity of the core (checked under SpecResolve).                         *)
(***************************************************************************)
\* C20: a call of the scoring engine or of the weekly resolver leaves the
\* games and the pick records as they were, the resolver leaves the weekly
\* score records it is given as they were, and a repeated call of the
\* resolver returns the result of the previous one.
C20_CoreIsPure ==
    [][/\ games' = games
       /\ picks' = picks
       /\ DetermineWeeklyWinnerStep =>
             /\ weeklyScores' = weeklyScores
             /\ weekResult # << >> => weekResult' = weekResult]_vars

(***************************************************************************)
(* The Games sheet and the backend's getGames (sheets-api.js).  A row has  *)
(* the ten columns of the README: Week, Day, Time, Away_Team, Home_Team,   *)
(* Over_Under, Completed, Winner, Away_Score, Home_Score.                  *)
(***************************************************************************)
GamesHeader ==
    <<<<"Week">>, <<"Day">>, <<"Time">>, <<"Away_Team">>, <<"Home_Team">>, <<"Over_Under">>,
      <<"Completed">>, <<"Winner">>, <<"Away_Score">>, <<"Home_Score">>>>

\* The number of columns in the range 'Games!A:I' that getGames requests.
GamesRangeWidth == 9

\* values.get on a range of `width` columns: the cells outside the range are
\* not returned, and each row comes back without its trailing empty cells.
ReadRange(rows, width) ==
    [i \in 1..Len(rows) |->
        TrimRow(SubSeq(rows[i], 1, IF Len(rows[i]) < width THEN Len(rows[i]) ELSE width))]

\* String.prototype.toLowerCase on the fragments that sheets and error
\* messages hold.
LowerCase(fragment) ==
    CASE fragment = "TRUE" -> "true"
      [] fragment = "FALSE" -> "false"
      [] fragment = "Monday" -> "monday"
      [] fragment = "Sunday" -> "sunday"
      [] fragment = "Service Unavailable" -> "service unavailable"
      [] fragment = "Internal Server Error" -> "internal server error"
      [] fragment = "Gateway Timeout" -> "gateway timeout"
      [] fragment = "Load failed" -> "load failed"
      [] fragment = "Failed to fetch" -> "failed to fetch"
      [] fragment = "NetworkError" -> "networkerror"
      [] fragment = "Missing required fields" -> "missing required fields"
      [] fragment = "HTTP 503: " -> "http 503: "
      [] OTHER -> fragment

\* `row[i] || ''` as a string, for a cell written as one fragment.
CellString(cell) == IF cell = EmptyText THEN "" ELSE cell[1]

\* The rows of `rows` that pass row.length > 0 && parseInt(row[0]) === parseInt(week).
RECURSIVE WeekRows(_, _)
WeekRows(rows, week) ==
    IF rows = << >> THEN << >>
    ELSE LET row == Head(rows)
             keep == Len(row) > 0 /\ ParseInt(row[1]) # NULL /\ ParseInt(row[1]) = <<week>>
         IN  (IF keep THEN <<row>> ELSE << >>) \o WeekRows(Tail(rows), week)

\* The game object that the map callback of getGames builds from one row.
GameOfRow(row, week, index) ==
    Game([id       |-> NumToText(week) \o <<"_">> \o NumToText(index),
          awayTeam |-> CellString(Cell(row, 3)),
          homeTeam |-> CellString(Cell(row, 4))],
         LowerCase(CellString(Cell(row, 6))) = "true",
         IF Cell(row, 7) = EmptyText THEN NullTeam ELSE CellString(Cell(row, 7)),
         IF Cell(row, 8) # EmptyText THEN ParseInt(Cell(row, 8)) ELSE NULL,
         IF Cell(row, 9) # EmptyText THEN ParseInt(Cell(row, 9)) ELSE NULL,
         LowerCase(CellString(Cell(row, 1))) = "monday")

\* getGames over a range of `width` columns.
GetGamesInRange(rows, week, width) ==
    LET values == ReadRange(rows, width) IN
    IF Len(values) = 0 THEN [games |-> << >>, success |-> TRUE, week |-> week]
    ELSE LET weekRows == WeekRows(Tail(values), week)
         IN  [games   |-> [index \in 1..Len(weekRows) |-> GameOfRow(weekRows[index], week, index)],
              success |-> TRUE,
              week    |-> week]

\* getGames(sheets, sheetId, {week})
GetGames(rows, week) == GetGamesInRange(rows, week, GamesRangeWidth)

GetGamesStep(week) ==
    /\ reply' = <<GetGames(gamesRows, week)>>
    /\ UNCHANGED <<appVars, scoreVars, sheetRows, apiRows, standingsRows, gamesRows, pending>>

\* A score cell: empty, or a number up to MaxScore.
ScoreCells == {EmptyText} \cup {NumToText(n) : n \in 0..MaxScore}

\* The rows a commissioner may enter for one matchup.
GamesSheetRows ==
    {TrimRow(<<NumToText(week), <<day>>, <<"1:00 PM">>, <<"Buffalo">>, <<"Miami">>, <<"45.5">>,
               <<done>>, (IF done = "TRUE" THEN <<"Buffalo">> ELSE EmptyText), away, home>>) :
        week \in 1..MaxWeek, day \in {"Sunday", "Monday"}, done \in {"TRUE", "FALSE"},
        away \in ScoreCells, home \in ScoreCells}

GamesSheets ==
    {<< >>} \cup
    UNION {{<<GamesHeader>> \o s : s \in [1..n -> GamesSheetRows]} : n \in 0..MaxGames}

InitGames ==
    /\ InitIdleApp
    /\ sheetRows = << >>
    /\ apiRows = << >>
    /\ standingsRows = << >>
    /\ gamesRows \in GamesSheets
    /\ reply = << >>
    /\ pending = << >>

NextGames == \E week \in 1..MaxWeek : GetGamesStep(week)

SpecGames == InitGames /\ [][NextGames]_vars

\* The rows of the sheet, all ten columns, that belong to a week.
SheetRowsOfWeek(week) ==
    IF gamesRows = << >> THEN << >> ELSE WeekRows(Tail(gamesRows), week)

BothScoresFilled(row) == Cell(row, 8) # EmptyText /\ Cell(row, 9) # EmptyText

\* C24: every row of the requested week whose Away_Score and Home_Score cells
\* are both filled in is returned by getGames as a game whose awayScore and
\* homeScore are both non-null.
C24_FilledScoresAreReturned ==
    reply # << >> =>
        LET rows == SheetRowsOfWeek(reply[1].week) IN
        \A index \in 1..Len(rows) :
            BothScoresFilled(rows[index]) =>
                /\ index <= Len(reply[1].games)
                /\ reply[1].games[index].awayScore # NULL
                /\ reply[1].games[index].homeScore # NULL

(***************************************************************************)
(* The browser application with a backend: makePick and savePicks in       *)
(* online and offline mode, over games that came from Config.SAMPLE_GAMES  *)
(* (numeric ids) or from the backend's getGames (ids `${week}_${index}`).  *)
(***************************************************************************)
MIN_WEEK == 1
MAX_WEEK == 18
MIN_TIEBREAKER == 0
MAX_TIEBREAKER == 150

\* The Games sheet row of a game of the schedule.
GamesRowOf(week, game) ==
    TrimRow(<<NumToText(week), <<IF game.isMNF THEN "Monday" ELSE "Sunday">>, <<"1:00 PM">>,
              <<game.awayTeam>>, <<game.homeTeam>>, <<"45.5">>,
              <<IF game.completed THEN "TRUE" ELSE "FALSE">>,
              (IF game.winner = NullTeam THEN EmptyText ELSE <<game.winner>>),
              (IF game.awayScore = NULL THEN EmptyText ELSE NumToText(game.awayScore[1])),
              (IF game.homeScore = NULL THEN EmptyText ELSE NumToText(game.homeScore[1]))>>)

RECURSIVE ScheduleRows(_, _)
ScheduleRows(weeks, week) ==
    IF week > Len(weeks) THEN << >>
    ELSE [i \in 1..Len(weeks[week]) |-> GamesRowOf(week, weeks[week][i])]
         \o ScheduleRows(weeks, week + 1)

\* A Games sheet that holds the matchups of the sample schedule.
ScheduleSheet == <<GamesHeader>> \o ScheduleRows(SampleSchedule, 1)

\* API.getGames(week): response.games || []
BackendGames(week) == GetGames(gamesRows, week).games

\* The list loadGames assigns to App.games, by where it came from.
LoadedGames(week, source) ==
    IF source = "backend" THEN BackendGames(week) ELSE GetSampleGames(week)

\* The value of the numeric literal that a text of digits and numeric
\* separators denotes in JavaScript source: 1_1 is eleven.
NumericLiteral(text) ==
    LET digitAt == {i \in 1..Len(text) : IsDigit(text[i])}
        Pick(s) == CHOOSE i \in s : \A j \in s : i <= j
        F[s \in SUBSET digitAt] ==
            IF s = {} THEN << >> ELSE <<text[Pick(s)]>> \o F[s \ {Pick(s)}]
    IN  DigitsValue(F[digitAt])

\* The first argument of the call in onclick="makePick(${game.id}, '...')":
\* the id is interpolated into source text and evaluated as an expression.
ButtonArgument(game) ==
    IF gamesSource = "backend" THEN NumericLiteral(game.id) ELSE game.id

\* game && game.completed for game = App.games.find(g => g.id === gameId) and
\* a number gameId: an id that is a string is never === a number.
FoundCompleted(gs, source, gameId) ==
    IF source = "backend" THEN FALSE
    ELSE \E i \in 1..Len(gs) :
            /\ gs[i].id = gameId
            /\ gs[i].completed
            /\ \A j \in 1..(i - 1) : gs[j].id # gameId

\* Validation.validatePickData(data).isValid, for a number week, a text gameId
\* and a number-or-null tiebreaker.  Every team name of the model has between
\* 1 and 20 characters.
IsValidPlayer(playerName) == playerName \in Range(ConfigPlayers)
IsValidWeek(week) == week >= MIN_WEEK /\ week <= MAX_WEEK
IsValidTiebreaker(value) == value[1] >= MIN_TIEBREAKER /\ value[1] <= MAX_TIEBREAKER
IsValidGameId(gameId) == gameId # EmptyText /\ ParseInt(gameId) # NULL
IsValidTeamName(teamName) == teamName # ""

ValidatePickData(data) ==
    /\ data.player # "" /\ IsValidPlayer(data.player)
    /\ IsValidWeek(data.week)
    /\ IsValidGameId(data.gameId)
    /\ IsValidTeamName(data.teamPick)
    /\ (TruthyNum(data.tiebreaker) => IsValidTiebreaker(data.tiebreaker))

\* The ids of a games map in the order of Object.entries: integer keys ascending.
RECURSIVE KeysAscending(_)
KeysAscending(s) ==
    IF s = {} THEN << >>
    ELSE LET least == CHOOSE g \in s : \A h \in s : g <= h
         IN  <<least>> \o KeysAscending(s \ {least})

\* The pick data objects savePicks builds for a record, one per selection.
SaveRequests(player, week, record) ==
    LET keys == KeysAscending(DOMAIN record.games) IN
    [i \in 1..Len(keys) |->
        [player |-> player, week |-> week, gameId |-> NumToText(keys[i]),
         teamPick |-> record.games[keys[i]], tiebreaker |-> record.tiebreaker]]

\* The loop of savePicks over API.savePick: the requests the backend answered
\* with success and whether the loop ran to its end.  API.savePick throws
\* before any request when the data is invalid, and throws when the request
\* fails; the first throw leaves the loop.
RECURSIVE SendAll(_, _)
SendAll(requests, accepts) ==
    IF requests = << >> THEN [sent |-> << >>, success |-> TRUE]
    ELSE IF ~ValidatePickData(Head(requests)) \/ ~accepts
         THEN [sent |-> << >>, success |-> FALSE]
         ELSE LET rest == SendAll(Tail(requests), accepts)
              IN  [sent |-> <<Head(requests)>> \o rest.sent, success |-> rest.success]

\* The backend part of savePicks for the pick store ps.
BackendSave(ps, accepts) ==
    LET playerKey == PlayerKey(currentPlayer, currentWeek) IN
    IF isOnlineMode /\ playerKey \in DOMAIN ps
    THEN SendAll(SaveRequests(currentPlayer, currentWeek, ps[playerKey]), accepts)
    ELSE [sent |-> << >>, success |-> FALSE]

SaveResult(returned, backendSaveSuccess) ==
    <<[returned |-> returned, backend |-> backendSaveSuccess]>>

\* A save that persists the store as it was when the application started.
SaveStoreStale(ps, accepts, showNotification) ==
    LET stored == StoreTiebreaker(ps, PlayerKey(currentPlayer, currentWeek), tiebreakerInput)
        backend == BackendSave(stored, accepts)
    IN  /\ picks' = stored
        /\ localPicks' = localPicks
        /\ sent' = backend.sent
        /\ saveOutcome' = SaveResult(TRUE, backend.success)
        /\ notice' = IF ~showNotification THEN ""
                     ELSE IF backend.success THEN "success" ELSE "warning"

\* savePicks(showNotification) from its try block on, for the pick store ps
\* that the caller has prepared.
SaveStore(ps, accepts, showNotification) ==
    LET stored == StoreTiebreaker(ps, PlayerKey(currentPlayer, currentWeek), tiebreakerInput)
        backend == BackendSave(stored, accepts)
    IN  /\ picks' = stored
        /\ localPicks' = stored
        /\ sent' = backend.sent
        /\ saveOutcome' = SaveResult(TRUE, backend.success)
        /\ notice' = IF ~showNotification THEN ""
                     ELSE IF backend.success THEN "success" ELSE "warning"

\* savePicks() from the save button, Ctrl+S or a timer; `accepts` tells
\* whether the backend answers the requests of this save with success.
SavePicksOnline(accepts) ==
    /\ IF currentPlayer = ""
       THEN /\ notice' = "error"
            /\ saveOutcome' = SaveResult(FALSE, FALSE)
            /\ UNCHANGED <<picks, localPicks, sent>>
       ELSE SaveStore(picks, accepts, TRUE)
    /\ UNCHANGED <<isOnlineMode, isLoading, loads, buttonsShown, gamesSource, api, schedule, fetchedGames,
                   players, currentWeek, currentPlayer, games, tiebreakerInput, scoreVars,
                   backendVars>>

\* makePick(gameId, team) with its call of savePicks(false).
MakePickOnline(gameId, team, accepts) ==
    /\ IF currentPlayer = "" \/ FoundCompleted(games, gamesSource, gameId)
       THEN /\ notice' = "error"
            /\ UNCHANGED <<picks, localPicks, sent, saveOutcome>>
       ELSE SaveStore(RecordPick(picks, currentPlayer, currentWeek, gameId, team), accepts, FALSE)
    /\ UNCHANGED <<isOnlineMode, isLoading, loads, buttonsShown, gamesSource, api, schedule, fetchedGames,
                   players, currentWeek, currentPlayer, games, tiebreakerInput, scoreVars,
                   backendVars>>

\* A call of makePick as a team button of a loaded game makes it.
PressTeam(accepts) ==
    \E i \in 1..Len(games) : \E team \in TeamsOf(games[i]) :
        MakePickOnline(ButtonArgument(games[i]), team, accepts)

\* The application after loadGames, online or offline, with the games of the
\* current week from either source.
InitSave ==
    /\ InitScores
    /\ schedule = SampleSchedule
    /\ fetchedGames = << >>
    /\ players = SubSeq(FallbackPlayers, 1, 2)
    /\ currentWeek \in 1..MaxWeek
    /\ currentPlayer = ""
    /\ tiebreakerInput = EmptyText
    /\ picks = NoPicks
    /\ localPicks = NoPicks
    /\ isOnlineMode \in BOOLEAN
    /\ isLoading = FALSE
    /\ loads = {}
    /\ buttonsShown = TRUE
    /\ gamesSource \in {"sample", "backend"}
    /\ sheetRows = << >>
    /\ apiRows = << >>
    /\ standingsRows = << >>
    /\ gamesRows = ScheduleSheet
    /\ reply = << >>
    /\ pending = << >>
    /\ games = LoadedGames(currentWeek, gamesSource)
    /\ sent = << >>
    /\ saveOutcome = << >>
    /\ notice = ""
    /\ api = ApiIdle

NextSave ==
    \/ \E p \in {""} \cup Range(players) : HandlePlayerChange(p)
    \/ \E text \in {EmptyText} \cup TypedTexts : TypeTiebreaker(text)
    \/ \E accepts \in BOOLEAN : SavePicksOnline(accepts)
    \/ \E accepts \in BOOLEAN : PressTeam(accepts)

SpecSave == InitSave /\ [][NextSave]_vars

(***************************************************************************)
(* Properties of makePick and savePicks (checked under SpecSave).          *)
(***************************************************************************)
\* The step is the call of makePick that the button `team` of the i-th loaded
\* game makes.
PressOf(i, team) ==
    \E accepts \in BOOLEAN : MakePickOnline(ButtonArgument(games[i]), team, accepts)

C22_OnlineSaveReachesBackend ==
    [][(isOnlineMode /\ currentPlayer # "" /\ CurrentKey \in DOMAIN picks
            /\ SavePicksOnline(TRUE)) =>
          /\ saveOutcome' = SaveResult(TRUE, TRUE)
          /\ sent' = SaveRequests(currentPlayer, currentWeek, picks'[CurrentKey])]_vars

RequiredRequests ==
    {PickRequest(p, w, g, t, NULL) :
        p \in {"", FallbackPlayers[1]}, w \in {0, 1},
        g \in {EmptyText, NumToText(Week1Sample[1].id)},
        t \in {""} \cup TeamsOf(Week1Sample[1])}

InitRequired ==
    /\ InitIdleApp
    /\ sheetRows \in {<< >>, <<SheetHeader>>}
    /\ apiRows \in {<< >>, <<ApiHeader>>}
    /\ standingsRows = << >>
    /\ gamesRows = << >>
    /\ reply = << >>
    /\ pending = << >>

NextRequired ==
    \/ \E d \in RequiredRequests : SheetSavePick(d)
    \/ \E d \in RequiredRequests : ApiSavePick(d)

SpecRequired == InitRequired /\ [][NextRequired]_vars

\* C25: a savePick whose data lacks player, week, gameId or teamPick returns
\* the failure result that reports missing required fields, and neither Picks
\* store is written.
C25_MissingFieldsAreRefused ==
    [][\A d \in RequiredRequests :
          ((d.player = "" \/ d.week = 0 \/ d.gameId = EmptyText \/ d.teamPick = "")
              /\ (SheetSavePick(d) \/ ApiSavePick(d))) =>
              /\ reply' = Result(FALSE, "missing")
              /\ sheetRows' = sheetRows
              /\ apiRows' = apiRows]_vars

\* A request lacking a field was refused while both stores held picks.
C25_Witness ==
    /\ reply = Result(FALSE, "missing")
    /\ Len(sheetRows) >= 2
    /\ Len(apiRows) >= 2

(***************************************************************************)
(* The upsert backend on the game ids the application sends: ids of        *)
(* Config.SAMPLE_GAMES (1..16), ids week * 100 + i of generateSampleWeek,  *)
(* and the numbers the buttons of backend games pass (2_1 is 21).          *)
(***************************************************************************)
WideGameIds == {NumToText(1), NumToText(21), NumToText(23), NumToText(300)}

WideRequests ==
    {PickRequest(FallbackPlayers[1], 1, g, t, tb) :
        g \in WideGameIds, t \in TeamsOf(Week1Sample[1]), tb \in {NULL, <<45>>}}

NextColumns ==
    \/ \E d \in WideRequests : SheetSavePick(d)
    \/ \E d \in WideRequests : SheetSavePickRecovered(d)
    \/ SheetSavePickFailed

SpecColumns == InitSheet /\ [][NextColumns]_vars

\* The sheet records teamPick for the player, week and game of the request.
Recorded(sheet, data) ==
    /\ GameCell(data) \in GameCells
    /\ \E i \in RowsOf(sheet, data) :
          /\ Len(sheet[i]) >= GameCell(data)
          /\ sheet[i][GameCell(data)] = <<data.teamPick>>

\* C27: whenever savePick reports success for a request, the Picks sheet
\* afterwards holds teamPick in the column of that game in the row of that
\* player and week.
C27_SuccessMeansRecorded ==
    [][\A d \in WideRequests : SuccessfulSave(d) => Recorded(sheetRows', d)]_vars

\* The cells (index from 1) a save of data may write in the row of the request.
WritableCells(data) ==
    {GameCell(data)} \cup (IF TruthyNum(data.tiebreaker) THEN {TiebreakerColumn + 1} ELSE {})
        \cup {TimestampColumn + 1}

\* The PlayerWeek, Player, Reserved1 and Reserved2 cells.
ProtectedCells == {1, 2, 2 + GameColumnCount + 1, 2 + GameColumnCount + 2}

\* What a row holds before it exists: the key, the player, and empty cells.
FreshRow(data) ==
    [c \in 1..SheetWidth |->
        IF c = 1 THEN PlayerWeekKey(data.player, data.week)
        ELSE IF c = 2 THEN <<data.player>> ELSE EmptyText]

\* The row of the request before the save, padded to the sheet's width.
RowBefore(sheet, data) ==
    IF FindRow(sheet, PlayerWeekKey(data.player, data.week)) = 0 THEN FreshRow(data)
    ELSE PadRow(sheet[FindRow(sheet, PlayerWeekKey(data.player, data.week))])

\* The row that the save of data on `sheet` has written in `after`: the row
\* found for the key, or the appended one.
RowAfter(sheet, after, data) ==
    IF FindRow(sheet, PlayerWeekKey(data.player, data.week)) = 0 THEN PadRow(after[Len(after)])
    ELSE PadRow(after[FindRow(sheet, PlayerWeekKey(data.player, data.week))])

\* C28: a successful savePick changes, in the row of the request, only the
\* cell of the given game, the tiebreaker cell when a tiebreaker is supplied,
\* and the timestamp cell; the PlayerWeek, Player and reserved cells are never
\* overwritten, and the tiebreaker cell keeps its value when no tiebreaker is
\* supplied.
C28_SaveWritesOnlyItsCells ==
    [][\A d \in WideRequests :
          (SheetSavePick(d) /\ reply'[1].success) =>
              /\ \A c \in (1..SheetWidth) \ WritableCells(d) :
                    RowAfter(sheetRows, sheetRows', d)[c] = RowBefore(sheetRows, d)[c]
              /\ \A c \in ProtectedCells :
                    RowAfter(sheetRows, sheetRows', d)[c] = RowBefore(sheetRows, d)[c]
              /\ (~TruthyNum(d.tiebreaker) =>
                    RowAfter(sheetRows, sheetRows', d)[TiebreakerColumn + 1]
                        = RowBefore(sheetRows, d)[TiebreakerColumn + 1])]_vars

(***************************************************************************)
(* The upsert backend's savePick one storage call at a time, each call     *)
(* succeeding or throwing: the read of 'Picks!A:Z', the update or append   *)
(* of the row, and in the catch block the write of the header row followed *)
(* by the recursive call of savePick.  pending holds the one invocation.   *)
(***************************************************************************)
\* The handler is called; without the required fields it returns at once.
ReceiveSavePick(data) ==
    /\ IF pending = << >> THEN TRUE ELSE pending[1].phase = "done"
    /\ Len(sheetRows) < MaxRows
    /\ IF MissingRequired(data)
       THEN /\ pending' = << >>
            /\ reply' = Result(FALSE, "missing")
       ELSE /\ pending' = <<InFlight(data)>>
            /\ reply' = << >>
    /\ UNCHANGED <<appVars, scoreVars, standingsRows, gamesRows, sheetRows, apiRows>>

\* The catch (sheetError) block is entered.
EnterRecovery ==
    /\ pending' = [pending EXCEPT ![1].phase = "recovering"]
    /\ UNCHANGED <<appVars, scoreVars, standingsRows, gamesRows, sheetRows, apiRows, reply>>

\* sheets.spreadsheets.values.get on the Picks sheet.
ReadPicks(ok) ==
    /\ pending # << >>
    /\ pending[1].phase = "received"
    /\ IF ok THEN ReadSheet(1) ELSE EnterRecovery

\* sheets.spreadsheets.values.update or append of the row.
WritePicks(ok) ==
    /\ pending # << >>
    /\ pending[1].phase = "read"
    /\ IF ok THEN WriteSheet(1) ELSE EnterRecovery

\* The update of 'Picks!A1:Z1' in the catch block: when it succeeds savePick
\* calls itself with the same data, when it throws the outer catch returns
\* the failure result.
WriteHeader(ok) ==
    /\ pending # << >>
    /\ pending[1].phase = "recovering"
    /\ IF ok
       THEN /\ sheetRows' = SheetWithHeader(sheetRows)
            /\ pending' = [pending EXCEPT ![1].phase = "received"]
            /\ reply' = reply
       ELSE /\ sheetRows' = sheetRows
            /\ pending' = [pending EXCEPT ![1].phase = "done"]
            /\ reply' = Result(FALSE, "error")
    /\ UNCHANGED <<appVars, scoreVars, standingsRows, gamesRows, apiRows>>

StorageCall ==
    \E ok \in BOOLEAN : ReadPicks(ok) \/ WritePicks(ok) \/ WriteHeader(ok)

\* The requests of one player without a tiebreaker.
RetryRequests == {d \in SheetRequests : d.player = FallbackPlayers[1] /\ d.tiebreaker = NULL}

NextRetry ==
    \/ \E d \in RetryRequests : ReceiveSavePick(d)
    \/ \E ok \in BOOLEAN : ReadPicks(ok)
    \/ \E ok \in BOOLEAN : WritePicks(ok)
    \/ \E ok \in BOOLEAN : WriteHeader(ok)

\* Every storage call returns or throws, so the handler always takes its next
\* step; which calls throw is not constrained.
SpecRetry == InitSheet /\ [][NextRetry]_vars /\ WF_vars(StorageCall)

Running == IF pending = << >> THEN FALSE ELSE pending[1].phase # "done"

\* C29: every invocation of savePick reaches its return, whichever storage
\* calls throw.
C29_SavePickTerminates == Running ~> ~Running

(***************************************************************************)
(* API._makeRequest: one fetch attempt per step.  An error message is a    *)
(* text whose fragments are the phrases the code searches for; includes()  *)
(* finds a phrase when it is one of the fragments.                         *)
(***************************************************************************)
MAX_RETRIES == 3

Includes(message, phrase) == \E i \in 1..Len(message) : message[i] = phrase

ToLowerCase(message) == [i \in 1..Len(message) |-> LowerCase(message[i])]

\* What one fetch attempt ends with: a successful response, or an error with
\* its name and message.
Response == [ok |-> TRUE, name |-> "", message |-> EmptyText]

Failure(name, message) == [ok |-> FALSE, name |-> name, message |-> message]

\* The abort by the timeout timer, fetch rejections as browsers word them, and
\* the errors thrown for HTTP error statuses and for results carrying an error.
Outcomes ==
    {Response,
     Failure("AbortError", <<"The operation was aborted.">>),
     Failure("TypeError", <<"Failed to fetch">>),
     Failure("TypeError", <<"NetworkError", " when attempting to fetch resource.">>),
     Failure("TypeError", <<"Load failed">>),
     Failure("Error", <<"HTTP 503: ", "Service Unavailable">>),
     Failure("Error", <<"Internal Server Error">>),
     Failure("Error", <<"Gateway Timeout">>),
     Failure("Error", <<"Missing required fields">>)}

\* error.message.includes('Failed to fetch') || error.message.includes('NetworkError')
IsNetworkError(message) ==
    Includes(message, "Failed to fetch") \/ Includes(message, "NetworkError")

\* API._shouldRetry
RetryableErrors ==
    {"timeout", "network error", "internal server error", "bad gateway", "service unavailable",
     "gateway timeout"}

ShouldRetry(message) ==
    \E retryable \in RetryableErrors : Includes(ToLowerCase(message), retryable)

\* A retry test that never gives up.
MayRetryAlways(retryCount) == TRUE

\* retryCount < Config.API.MAX_RETRIES
MayRetry(retryCount) == retryCount < MAX_RETRIES

\* The API object after the attempt of a request at retryCount a.retryCount
\* has ended with outcome o.  A retry is the recursive call with retryCount + 1.
AfterAttempt(a, o) ==
    LET counted == [a EXCEPT !.attempts = @ + 1] IN
    IF o.ok
    THEN [counted EXCEPT !.isConnected = TRUE, !.lastError = EmptyText, !.phase = "returned"]
    ELSE IF o.name = "AbortError"
    THEN [counted EXCEPT !.phase = "thrown",
                         !.thrown = <<"Request timeout - please try again">>]
    ELSE IF IsNetworkError(o.message)
    THEN [counted EXCEPT !.isConnected = FALSE, !.phase = "thrown",
                         !.thrown = <<"Network error - check your internet connection">>]
    ELSE IF MayRetry(a.retryCount) /\ ShouldRetry(o.message)
    THEN [counted EXCEPT !.retryCount = @ + 1]
    ELSE [counted EXCEPT !.lastError = o.message, !.phase = "thrown", !.thrown = o.message]

\* API._makeRequest(action, data) is called with retryCount = 0.
MakeRequest ==
    /\ api.phase # "fetching"
    /\ api' = [api EXCEPT !.retryCount = 0, !.attempts = 0, !.phase = "fetching",
                          !.thrown = EmptyText]
    /\ UNCHANGED <<isOnlineMode, isLoading, loads, buttonsShown, gamesSource, sent, saveOutcome,
                   notice, schedule, players, currentWeek, currentPlayer, games, picks,
                   tiebreakerInput, localPicks, fetchedGames, scoreVars, backendVars>>

\* The pending fetch settles with outcome o and _makeRequest handles it.
Fetch(o) ==
    /\ api.phase = "fetching"
    /\ api' = AfterAttempt(api, o)
    /\ UNCHANGED <<isOnlineMode, isLoading, loads, buttonsShown, gamesSource, sent, saveOutcome,
                   notice, schedule, players, currentWeek, currentPlayer, games, picks,
                   tiebreakerInput, localPicks, fetchedGames, scoreVars, backendVars>>

InitRequest ==
    /\ InitIdleApp
    /\ InitBackend

NextRequest ==
    \/ MakeRequest
    \/ \E o \in Outcomes : Fetch(o)

\* Every fetch settles: it resolves, rejects, or is aborted by the timer after
\* Config.API.TIMEOUT.
SpecRequest == InitRequest /\ [][NextRequest]_vars /\ WF_vars(\E o \in Outcomes : Fetch(o))

MaxPicks == 1

PendingLoad(week, byChangeWeek) == [week |-> week, byChangeWeek |-> byChangeWeek]

\* The number of selections in the pick store.
RECURSIVE SelectionCount(_)
SelectionCount(ps) ==
    IF DOMAIN ps = {} THEN 0
    ELSE LET k == CHOOSE key \in DOMAIN ps : TRUE
         IN  Cardinality(DOMAIN ps[k].games)
                 + SelectionCount([key \in DOMAIN ps \ {k} |-> ps[key]])

\* changeWeek(week) up to the first await that yields: offline loadGames runs
\* to its end and so does changeWeek; online the call waits for API.getGames
\* behind UI.showGamesLoading with App.isLoading set.
ChangeWeekOnline(week) ==
    /\ ~isLoading
    /\ currentWeek' = week
    /\ IF isOnlineMode
       THEN /\ isLoading' = TRUE
            /\ loads' = loads \cup {PendingLoad(week, TRUE)}
            /\ buttonsShown' = FALSE
            /\ UNCHANGED <<games, gamesSource, tiebreakerInput>>
       ELSE /\ isLoading' = FALSE
            /\ loads' = loads
            /\ games' = GetSampleGames(week)
            /\ gamesSource' = "sample"
            /\ buttonsShown' = (Len(GetSampleGames(week)) > 0)
            /\ tiebreakerInput' = IF currentPlayer # ""
                                  THEN LoadedTiebreakerText(currentPlayer, week)
                                  ELSE tiebreakerInput
    /\ UNCHANGED <<isOnlineMode, sent, saveOutcome, notice, api, schedule, fetchedGames, players,
                   currentPlayer, picks, localPicks, scoreVars, backendVars>>

\* API.getGames of a waiting loadGames settles: with the backend's games, or
\* with an error, after which loadGames takes the sample games.  The rest of
\* loadGames and, for a call made by changeWeek, the rest of changeWeek follow.
LoadGamesSettles(load, ok) ==
    /\ load \in loads
    /\ loads' = loads \ {load}
    /\ gamesSource' = IF ok THEN "backend" ELSE "sample"
    /\ games' = LoadedGames(load.week, gamesSource')
    /\ buttonsShown' = (Len(games') > 0)
    /\ isLoading' = IF load.byChangeWeek THEN FALSE ELSE isLoading
    /\ tiebreakerInput' = IF load.byChangeWeek /\ currentPlayer # ""
                          THEN LoadedTiebreakerText(currentPlayer, currentWeek)
                          ELSE tiebreakerInput
    /\ UNCHANGED <<isOnlineMode, sent, saveOutcome, notice, api, schedule, fetchedGames, players,
                   currentWeek, currentPlayer, picks, localPicks, scoreVars, backendVars>>

\* handleOnlineStatusChange when navigator.onLine && API.isConnected() is isOnline.
HandleOnlineStatusChange(isOnline) ==
    /\ isOnline # isOnlineMode
    /\ isOnlineMode' = isOnline
    /\ notice' = IF isOnline THEN "success" ELSE "warning"
    /\ IF isOnline
       THEN /\ loads' = loads \cup {PendingLoad(currentWeek, FALSE)}
            /\ buttonsShown' = FALSE
       ELSE UNCHANGED <<loads, buttonsShown>>
    /\ UNCHANGED <<isLoading, gamesSource, sent, saveOutcome, api, schedule, fetchedGames, players,
                   currentWeek, currentPlayer, games, picks, tiebreakerInput, localPicks,
                   scoreVars, backendVars>>

\* A click on an enabled team button of the displayed game cards.
ClickShownTeam ==
    /\ buttonsShown
    /\ SelectionCount(picks) < MaxPicks
    /\ \E i \in 1..Len(games) : \E team \in TeamsOf(games[i]) : \E accepts \in BOOLEAN :
          /\ ~games[i].completed
          /\ MakePickOnline(ButtonArgument(games[i]), team, accepts)

InitWeeks ==
    /\ InitScores
    /\ schedule = SampleSchedule
    /\ fetchedGames = << >>
    /\ players = SubSeq(FallbackPlayers, 1, 1)
    /\ currentWeek = 1
    /\ currentPlayer = ""
    /\ tiebreakerInput = EmptyText
    /\ picks = NoPicks
    /\ localPicks = NoPicks
    /\ isOnlineMode \in BOOLEAN
    /\ isLoading = FALSE
    /\ loads = {}
    /\ buttonsShown = TRUE
    /\ gamesSource = IF isOnlineMode THEN "backend" ELSE "sample"
    /\ sheetRows = << >>
    /\ apiRows = << >>
    /\ standingsRows = << >>
    /\ gamesRows = ScheduleSheet
    /\ reply = << >>
    /\ pending = << >>
    /\ games = LoadedGames(currentWeek, gamesSource)
    /\ sent = << >>
    /\ saveOutcome = << >>
    /\ notice = ""
    /\ api = ApiIdle

NextWeeks ==
    \/ \E p \in {""} \cup Range(players) : HandlePlayerChange(p)
    \/ \E week \in 1..MaxWeek : ChangeWeekOnline(week)
    \/ \E load \in loads : \E ok \in BOOLEAN : LoadGamesSettles(load, ok)
    \/ \E isOnline \in BOOLEAN : HandleOnlineStatusChange(isOnline)
    \/ ClickShownTeam

SpecWeeks == InitWeeks /\ [][NextWeeks]_vars

\* C26: whenever makePick records a selection, the loaded game list is the
\* game list of the current week, so the selection stored under the key of
\* (player, week) is for a game of that week.
C26_PickIsForCurrentWeek ==
    [][(currentPlayer # "" /\ ClickShownTeam) =>
          games = LoadedGames(currentWeek, gamesSource)]_vars
====
